---------------------------- MODULE Spec2Model ----------------------------
(***************************************************************************)
(* A model of the serial protocol engine of PC_monitor                     *)
(* (src/serial_worker.py, driven by src/main_window.py).                   *)
(*                                                                         *)
(* Bytes are integers 0..255 and a bytes object is a sequence of them.     *)
(* A Python int (unbounded) is modelled by the set of the positions of     *)
(* its 1 bits, so that shifts never lose a bit the code keeps.             *)
(***************************************************************************)
EXTENDS Integers, Sequences, FiniteSets, TLC

VARIABLES
    \* ---- the frame codec driven on its own (SpecCodec) ----
    scenario,   \* the input drawn in Init (never changes)
    feeds,      \* the chunks still to be appended to the buffer
    buffer,     \* the buffer handed to _read_one_frame
    outcomes,   \* the results _read_one_frame returned, in call order
    step,       \* "feed" | "drain" | "done"
    \* ---- SerialWorker's fields ----
    serial_port,     \* "none" (None) | "closed" | "open" (a serial.Serial and its is_open)
    is_running,
    read_buffer,
    port_name,
    baudrate,
    auto_reconnect,
    \* ---- the two threads ----
    thread_started,  \* serial_thread.isRunning()
    pc,              \* where each thread is
    local_buffer,    \* connect_serial's local_buffer, per calling thread
    \* ---- the link and the device behind it ----
    rx,              \* the bytes waiting in the open port (in_waiting of them)
    tx,              \* the frames written to the open link, not yet answered
    dev,             \* the device: what it may send, how much it has sent
    budget,          \* how often the environment may still act
    \* ---- the signals emitted, in order ----
    emitted,
    \* ---- history ----
    call,            \* per thread, its current or last connect_serial call
    hist,            \* what the Receive Loop was handed, and what was lost
    \* ---- MainWindow: the health check's button and timers ----
    start_button,             \* start_button.isEnabled()
    detection_timeout_timer,  \* its isActive()
    countdown_timer,          \* its isActive()
    countdown_remaining,
    blink_timer               \* its isActive()

cvars == <<scenario, feeds, buffer, outcomes, step>>
wvars == <<serial_port, is_running, read_buffer, port_name, baudrate,
           auto_reconnect, thread_started, pc, local_buffer, rx, tx,
           dev, budget, emitted, call, hist>>
uvars == <<start_button, detection_timeout_timer, countdown_timer,
           countdown_remaining, blink_timer>>
vars == <<cvars, wvars, uvars>>

(***************************************************************************)
(* Protocol constants (src/constants.py)                                   *)
(***************************************************************************)
PROTO_VER == 2
CMD_PING == 1
CMD_START_HEALTH_CHECK == 32
CMD_GET_LAST_HEALTH_DATA == 33
CMD_GET_MOUSE_DATA == 34
CMD_DEVICE_STATUS_CHECK == 35
CMD_ACK == 127
CMD_NOTIFY_HEALTH_DATA_READY == 128
ACK_SUCCESS == 0
ACK_DEVICE_BUSY == 2
ACK_UNKNOWN_CMD == 1
DEFAULT_BAUD == 115200

MAGIC0 == 170    \* 0xAA
MAGIC1 == 85     \* 0x55
MaxUint16 == 65535   \* the largest value struct.pack packs as 'H'

(***************************************************************************)
(* Bounds of the model                                                     *)
(***************************************************************************)
MaxPayloadLen == 2
MaxSends == 2        \* unsolicited chunks the device sends
MaxClicks == 1       \* Connect calls of the foreground
MaxDisconnects == 1  \* Disconnect calls of the foreground
MaxFaults == 1       \* reads that raise on an open link
MaxOpenFails == 1    \* open() calls that fail on a closed port
MaxEmbeddedLen == 5 \* longest payload with a magic pair placed in it
MaxDataLen == 20    \* longest mouse or health payload handed to the main window
MaxMiddleRead == 2  \* bytes of the middle read when a stream is cut twice
MaxGarbageLen == 2  \* bytes of garbage in front of a frame
MaxRunLen == 8       \* longest run of one byte handed to crc16_xmodem
MaxPending == 2      \* start commands sent and not yet acknowledged

(***************************************************************************)
(* Python ints as sets of bit positions                                    *)
(***************************************************************************)
BitsOf(n) == {i \in 0..7 : (n \div (2^i)) % 2 = 1}
Shl(s, k) == {i + k : i \in s}
Xor(s, t) == (s \ t) \cup (t \ s)

RECURSIVE ToInt(_)
ToInt(s) == IF s = {} THEN 0
            ELSE LET i == CHOOSE j \in s : TRUE IN 2^i + ToInt(s \ {i})

(***************************************************************************)
(* crc16_xmodem: crc = 0; for each byte: crc ^= byte << 8; 8 times:        *)
(* if crc & 0x8000 then crc = (crc << 1) ^ poly else crc <<= 1;            *)
(* return crc & 0xFFFF.  The register is NOT masked inside the loop.       *)
(***************************************************************************)
\* 0x8005, the polynomial of CRC-16/ARC
poly_Arc == {0, 2, 15}
poly == {0, 5, 12}     \* 0x1021

RECURSIVE CrcBits(_, _)
CrcBits(crc, n) ==
    IF n = 0 THEN crc
    ELSE IF 15 \in crc THEN CrcBits(Xor(Shl(crc, 1), poly), n - 1)
    ELSE CrcBits(Shl(crc, 1), n - 1)

RECURSIVE CrcBytes(_, _, _)
CrcBytes(crc, data, i) ==
    IF i > Len(data) THEN crc
    ELSE CrcBytes(CrcBits(Xor(crc, Shl(BitsOf(data[i]), 8)), 8), data, i + 1)

crc16_xmodem(data) == ToInt(CrcBytes({}, data, 1) \cap (0..15))

(***************************************************************************)
(* struct.pack / struct.unpack, little-endian                              *)
(***************************************************************************)
PackH_BigEndian(x) == <<x \div 256, x % 256>>    \* '>H' written for '<H'
PackH(x) == <<x % 256, x \div 256>>              \* '<H'
UnpackH(b) == b[1] + 256 * b[2]                  \* '<H'
PackBBH(a, b, h) == <<a, b>> \o PackH(h)         \* '<BBH'

\* buffer[i:j] of Python, 0-based, j exclusive, clipped to the buffer
Slice(b, i, j) ==
    LET hi == IF j > Len(b) THEN Len(b) ELSE j
    IN  IF i >= hi THEN <<>> ELSE SubSeq(b, i + 1, hi)

\* buffer.rfind(b'\xAA\x55'): the last index, or -1
Find_rfind(b) ==
    LET hits == {i \in 0..(Len(b) - 2) : b[i + 1] = MAGIC0 /\ b[i + 2] = MAGIC1}
    IN  IF hits = {} THEN -1 ELSE CHOOSE i \in hits : \A j \in hits : i >= j

\* buffer.find(b'\xAA\x55'): the first index, or -1
Find(b) ==
    LET hits == {i \in 0..(Len(b) - 2) : b[i + 1] = MAGIC0 /\ b[i + 2] = MAGIC1}
    IN  IF hits = {} THEN -1 ELSE CHOOSE i \in hits : \A j \in hits : i <= j

(***************************************************************************)
(* send_frame's frame: header + pack('<BBH', PROTO_VER, cmd, len) +        *)
(* payload + pack('<H', crc)                                               *)
(***************************************************************************)
\* a frame whose CRC also covers the two magic bytes
BuildFrame_CrcOverMagic(cmd, payload) ==
    LET data_for_crc == PackBBH(PROTO_VER, cmd, Len(payload)) \o payload
        crc == crc16_xmodem(<<MAGIC0, MAGIC1>> \o data_for_crc)
    IN  <<MAGIC0, MAGIC1>> \o data_for_crc \o PackH(crc)

BuildFrame(cmd, payload) ==
    LET data_for_crc == PackBBH(PROTO_VER, cmd, Len(payload)) \o payload
        crc == crc16_xmodem(data_for_crc)
    IN  <<MAGIC0, MAGIC1>> \o data_for_crc \o PackH(crc)

(***************************************************************************)
(* _read_one_frame(buffer) -> (new_buffer, result)                         *)
(* result: None (kind "none"), False (kind "invalid"), or a frame dict.    *)
(***************************************************************************)
None == [kind |-> "none", cmd |-> 0, payload |-> <<>>, ver |-> 0]
Invalid == [kind |-> "invalid", cmd |-> 0, payload |-> <<>>, ver |-> 0]
FrameOf(cmd, payload, ver) ==
    [kind |-> "frame", cmd |-> cmd, payload |-> payload, ver |-> ver]

CrcCheck_Skipped(received_crc, calculated_crc) == TRUE
CrcCheck(received_crc, calculated_crc) == received_crc = calculated_crc

NoMagic_DropAll(buf0) == [buf |-> <<>>, result |-> None]
NoMagic_KeepAll(buf0) == [buf |-> buf0, result |-> None]
\* the branch taken when no magic is in the buffer: keep its last byte
NoMagic(buf0) ==
    IF Len(buf0) > 1
    THEN [buf |-> Slice(buf0, Len(buf0) - 1, Len(buf0)), result |-> None]
    ELSE [buf |-> buf0, result |-> None]

DropLeading_Keep(buf0, start_index) == buf0
\* if start_index > 0: buffer = buffer[start_index:]
DropLeading(buf0, start_index) ==
    IF start_index > 0 THEN Slice(buf0, start_index, Len(buf0)) ELSE buf0

\* a decoder that, on a CRC failure, drops the two magic bytes only and
\* searches again inside the candidate
OnCrcFailure_SkipMagic(buf, new_buffer) ==
    [buf |-> Slice(buf, 2, Len(buf)), result |-> Invalid]
\* a decoder that reports a CRC failure and leaves the candidate in place
OnCrcFailure_KeepAll(buf, new_buffer) == [buf |-> buf, result |-> Invalid]
\* if received_crc != calculated_crc: return new_buffer, False
OnCrcFailure(buf, new_buffer) == [buf |-> new_buffer, result |-> Invalid]

\* a decoder that refuses a declared length above 1024 and searches again
\* behind the magic
AwaitFrame_Bounded(buf, frame_len) ==
    IF frame_len > 8 + 1024
    THEN [buf |-> Slice(buf, 2, Len(buf)), result |-> Invalid]
    ELSE [buf |-> buf, result |-> None]
\* a decoder that starts afresh when a frame is not yet complete
AwaitFrame_Discard(buf, frame_len) == [buf |-> <<>>, result |-> None]
\* if len(buffer) < frame_len: return buffer, None
AwaitFrame(buf, frame_len) == [buf |-> buf, result |-> None]

_read_one_frame(buf0) ==
    LET start_index == Find(buf0)
    IN  IF start_index = -1 THEN NoMagic(buf0)
        ELSE
        LET buf == DropLeading(buf0, start_index)
        IN  IF Len(buf) < 8 THEN [buf |-> buf, result |-> None]
            ELSE
            LET payload_len == UnpackH(Slice(buf, 4, 6))
                frame_len == 8 + payload_len
            IN  IF Len(buf) < frame_len THEN AwaitFrame(buf, frame_len)
                ELSE
                LET frame == Slice(buf, 0, frame_len)
                    new_buffer == Slice(buf, frame_len, Len(buf))
                    data_to_check == Slice(frame, 2, 6 + payload_len)
                    received_crc == UnpackH(Slice(frame, 6 + payload_len, frame_len))
                    calculated_crc == crc16_xmodem(data_to_check)
                IN  IF ~CrcCheck(received_crc, calculated_crc)
                    THEN OnCrcFailure(buf, new_buffer)
                    ELSE [buf |-> new_buffer,
                          result |-> FrameOf(frame[4],
                                             Slice(frame, 6, 6 + payload_len),
                                             frame[3])]

(***************************************************************************)
(* The codec driven on its own: a byte stream, cut into chunks, is         *)
(* appended to a buffer chunk by chunk (run: read_buffer += data) and      *)
(* after each chunk _read_one_frame is called until it returns None        *)
(* (_process_read_data's loop, without the dispatch).                      *)
(***************************************************************************)
PayloadBytes == {0, MAGIC1, MAGIC0}
NoiseBytes == {0, 2, MAGIC1, MAGIC0, 255}
SomeCmds == {CMD_PING, CMD_ACK}

RECURSIVE SeqsUpTo(_, _)
SeqsUpTo(S, n) ==
    IF n = 0 THEN {<<>>}
    ELSE LET shorter == SeqsUpTo(S, n - 1)
         IN  shorter \cup {Append(q, b) : q \in {r \in shorter : Len(r) = n - 1}, b \in S}

Payloads == SeqsUpTo(PayloadBytes, MaxPayloadLen)

\* byte at 0-based index pos with bit number bit inverted
FlipBit(b, pos, bit) ==
    LET old == b[pos + 1]
        new == IF (old \div (2^bit)) % 2 = 1 THEN old - 2^bit ELSE old + 2^bit
    IN  [b EXCEPT ![pos + 1] = new]

Scn(kind, cmd, payload, noise, k, bit, tail) ==
    [kind |-> kind, cmd |-> cmd, payload |-> payload, noise |-> noise,
     k |-> k, bit |-> bit, tail |-> tail]

\* the frames that may follow a corrupted frame
TailFrames == {<<FrameOf(CMD_ACK, <<CMD_PING, ACK_SUCCESS>>, PROTO_VER)>>,
               <<FrameOf(CMD_PING, <<>>, PROTO_VER),
                 FrameOf(CMD_GET_MOUSE_DATA, <<MAGIC0, MAGIC1>>, PROTO_VER)>>}

RECURSIVE EncodeAll(_)
EncodeAll(fs) ==
    IF fs = <<>> THEN <<>>
    ELSE BuildFrame(Head(fs).cmd, Head(fs).payload) \o EncodeAll(Tail(fs))

\* garbage: bytes that hold no adjacent 0xAA 0x55 pair
Garbage == {g \in SeqsUpTo(NoiseBytes, MaxGarbageLen) : Find(g) = -1}
GarbagePayloads == {<<>>, <<MAGIC0, MAGIC1>>}

\* payloads that hold the magic pair: once at every position, twice,
\* and as the start of a whole well-formed frame
EmbeddedPayloads ==
    {[j \in 1..n |-> IF j = i THEN MAGIC0 ELSE IF j = i + 1 THEN MAGIC1 ELSE 0] :
        n \in 2..MaxEmbeddedLen, i \in 1..(MaxEmbeddedLen - 1)}
    \cup {<<MAGIC0, MAGIC1, MAGIC0, MAGIC1>>, <<MAGIC0, MAGIC1, 0, MAGIC0, MAGIC1>>,
          BuildFrame(CMD_PING, <<>>),
          <<7>> \o BuildFrame(CMD_ACK, <<CMD_PING, ACK_SUCCESS>>) \o <<7>>}

\* a well-formed frame that a longer candidate may cover
InnerFrame == BuildFrame(CMD_START_HEALTH_CHECK, <<9>>)

\* a header declaring a candidate that ends k bytes into InnerFrame, the
\* padding, InnerFrame, and the frames that follow
SwallowStream(s) ==
    <<MAGIC0, MAGIC1>> \o PackBBH(PROTO_VER, s.cmd, Len(s.payload) + s.k - 2)
        \o s.payload \o InnerFrame \o EncodeAll(s.tail)

\* declared payload lengths that the bytes received do not satisfy at
\* once, or ever
StallLens == {12, 300, MaxUint16}

\* a header declaring s.k payload bytes and the first bytes of that payload
StallHead(s) ==
    <<MAGIC0, MAGIC1>> \o PackBBH(PROTO_VER, s.cmd, s.k) \o s.payload

\* byte streams that are then cut into reads: two frames with noise (also a
\* false header) between them, a corrupted frame before two others, and a
\* candidate that covers a well-formed frame
ChunkStreams ==
    {BuildFrame(1, <<65>>) \o n \o BuildFrame(2, <<66, 67>>) :
        n \in [1..3 -> {MAGIC0, MAGIC1}]}
    \cup {FlipBit(BuildFrame(CMD_ACK, <<MAGIC0, MAGIC1>>), k, 0)
             \o BuildFrame(CMD_PING, <<>>) : k \in {6, 8}}
    \cup {<<MAGIC0, MAGIC1>> \o PackBBH(PROTO_VER, CMD_ACK, k - 2) \o InnerFrame
             \o BuildFrame(CMD_PING, <<>>) : k \in {5, Len(InnerFrame)}}

\* the cuts: one cut anywhere, or two cuts one or two bytes apart
ChunkCuts(st) ==
    {<<i, Len(st)>> : i \in 1..(Len(st) - 1)}
    \cup {<<i, i + d>> : i \in 1..(Len(st) - MaxMiddleRead - 1), d \in 1..MaxMiddleRead}

Scenarios ==
    {Scn("roundtrip", c, p, <<>>, 0, 0, <<>>) : c \in 0..255, p \in Payloads}
    \cup {Scn("resync", 0, <<>>, n, 0, 0, <<>>) : n \in [1..3 -> NoiseBytes]}
    \cup UNION {{Scn("corrupt", c, p, <<>>, k, bit, t) :
                    k \in 6..(7 + Len(p)), bit \in 0..7, t \in TailFrames} :
                 c \in {CMD_ACK}, p \in Payloads}
    \cup UNION {{Scn("split", c, p, <<>>, k, 0, <<>>) : k \in 1..(7 + Len(p))} :
                 c \in SomeCmds, p \in Payloads}
    \cup {Scn("embedded", c, p, <<>>, 0, 0, t) :
            c \in SomeCmds, p \in {q \in EmbeddedPayloads : Find(q) # -1},
            t \in TailFrames \cup {<<>>}}
    \cup {Scn("swallow", CMD_ACK, pad, <<>>, k, 0, t) :
            pad \in {<<>>, <<0>>}, k \in 2..Len(InnerFrame),
            t \in TailFrames \cup {<<>>}}
    \cup {Scn("stall", CMD_ACK, p, <<>>, n, 0, t) :
            p \in {<<>>, <<1, 0>>}, n \in StallLens, t \in TailFrames}
    \cup UNION {{Scn("chunks", 0, <<>>, st, c[1], c[2], <<>>) : c \in ChunkCuts(st)} :
                 st \in ChunkStreams}
    \cup UNION {{Scn("garbage", CMD_ACK, p, g, k, 0, <<>>) :
                    k \in 1..(Len(g) + 7 + Len(p))} :
                 p \in GarbagePayloads, g \in Garbage}

\* the chunks a scenario delivers
ChunksOf(s) ==
    CASE s.kind = "roundtrip" -> <<BuildFrame(s.cmd, s.payload)>>
      [] s.kind = "resync" ->
            <<BuildFrame(1, <<65>>) \o s.noise \o BuildFrame(2, <<66, 67>>)>>
      [] s.kind = "corrupt" ->
            <<FlipBit(BuildFrame(s.cmd, s.payload), s.k, s.bit) \o EncodeAll(s.tail)>>
      [] s.kind = "split" ->
            LET f == BuildFrame(s.cmd, s.payload)
            IN  <<Slice(f, 0, s.k), Slice(f, s.k, Len(f))>>
      [] s.kind = "embedded" ->
            <<BuildFrame(s.cmd, s.payload) \o EncodeAll(s.tail)>>
      [] s.kind = "swallow" -> <<SwallowStream(s)>>
      [] s.kind = "stall" ->
            <<StallHead(s)>> \o [i \in 1..Len(s.tail) |->
                                  BuildFrame(s.tail[i].cmd, s.tail[i].payload)]
      [] s.kind = "chunks" ->
            IF s.bit = Len(s.noise)
            THEN <<Slice(s.noise, 0, s.k), Slice(s.noise, s.k, s.bit)>>
            ELSE <<Slice(s.noise, 0, s.k), Slice(s.noise, s.k, s.bit),
                   Slice(s.noise, s.bit, Len(s.noise))>>
      [] s.kind = "garbage" ->
            LET f == s.noise \o BuildFrame(s.cmd, s.payload)
            IN  <<Slice(f, 0, s.k), Slice(f, s.k, Len(f))>>

(***************************************************************************)
(* The connection manager: SerialWorker driven by the main window (the     *)
(* foreground thread "fg") and by serial_thread (the background thread     *)
(* "bg", which executes run), with a device at the other end of the link.  *)
(***************************************************************************)
Threads == {"fg", "bg"}
Reconnecting == {"sleep5", "c_open", "c_wait"}
ComPort == "COM3"

\* ---- signals ----
Ev(sig, cmd, status, payload) ==
    [sig |-> sig, cmd |-> cmd, status |-> status, payload |-> payload]
Connected == Ev("connected", 0, 0, <<>>)
Disconnected == Ev("disconnected", 0, 0, <<>>)
ErrorOccurred == Ev("error_occurred", 0, 0, <<>>)
BusinessSignals == {"ack_received", "health_data_received", "mouse_data_received"}

\* ---- the dispatcher ----
\* a handler that accepts every payload of 2 bytes or more
_handle_ack_AtLeast2(payload) ==
    IF Len(payload) >= 2
    THEN <<Ev("ack_received", payload[1], payload[2], <<>>)>>
    ELSE <<>>

_handle_ack(payload) ==
    IF Len(payload) = 2
    THEN <<Ev("ack_received", payload[1], payload[2], <<>>)>>
    ELSE <<>>

_handle_health_data(payload) == <<Ev("health_data_received", 0, 0, payload)>>

_handle_mouse_data(payload) == <<Ev("mouse_data_received", 0, 0, payload)>>

\* a table that lacks the CMD_GET_LAST_HEALTH_DATA entry
command_handlers_NoLastHealth == {CMD_ACK, CMD_NOTIFY_HEALTH_DATA_READY,
                                  CMD_GET_MOUSE_DATA}

\* the keys of command_handlers
command_handlers == {CMD_ACK, CMD_NOTIFY_HEALTH_DATA_READY,
                     CMD_GET_LAST_HEALTH_DATA, CMD_GET_MOUSE_DATA}

\* the signals one valid frame makes the dispatcher emit
_handle_valid_frame(cmd, payload) ==
    IF cmd \notin command_handlers THEN <<>>
    ELSE IF cmd = CMD_ACK THEN _handle_ack(payload)
    ELSE IF cmd = CMD_GET_MOUSE_DATA THEN _handle_mouse_data(payload)
    ELSE _handle_health_data(payload)

\* the drain loop of run: the buffer it leaves and the signals it emits
RECURSIVE _process_read_data(_, _)
_process_read_data(buf, evs) ==
    LET r == _read_one_frame(buf)
    IN  IF r.result = None THEN [buf |-> r.buf, evs |-> evs]
        ELSE IF r.result = Invalid THEN _process_read_data(r.buf, evs)
        ELSE IF r.result.ver # PROTO_VER THEN _process_read_data(r.buf, evs)
        ELSE _process_read_data(r.buf,
                 evs \o _handle_valid_frame(r.result.cmd, r.result.payload))

\* run: self.read_buffer += data
AppendRead_Replace(buf, data) == data
AppendRead(buf, data) == buf \o data

\* ---- the handshake ----
\* the inner loop of connect_serial over local_buffer: "wait" (no verifying
\* ACK yet), "verified", or "raise" (struct.unpack('<BB', payload) on a
\* payload that is not 2 bytes long raises struct.error, which the
\* except serial.SerialException clause does not catch)
\* a handshake that leaves the verifying ACK at the head of what it hands on
RECURSIVE VerifyLoop_KeepsAck(_)
VerifyLoop_KeepsAck(buf) ==
    LET r == _read_one_frame(buf)
    IN  IF r.result = None THEN [buf |-> r.buf, out |-> "wait"]
        ELSE IF r.result = Invalid THEN VerifyLoop_KeepsAck(r.buf)
        ELSE IF r.result.cmd = CMD_ACK /\ Len(r.result.payload) >= 2
             THEN IF Len(r.result.payload) # 2
                  THEN [buf |-> r.buf, out |-> "raise"]
                  ELSE IF /\ r.result.payload[1] = CMD_PING
                          /\ r.result.payload[2] = ACK_SUCCESS
                       THEN [buf |-> buf, out |-> "verified"]
                       ELSE VerifyLoop_KeepsAck(r.buf)
             ELSE VerifyLoop_KeepsAck(r.buf)
RECURSIVE VerifyLoop(_)
VerifyLoop(buf) ==
    LET r == _read_one_frame(buf)
    IN  IF r.result = None THEN [buf |-> r.buf, out |-> "wait"]
        ELSE IF r.result = Invalid THEN VerifyLoop(r.buf)
        ELSE IF r.result.cmd = CMD_ACK /\ Len(r.result.payload) >= 2
             THEN IF Len(r.result.payload) # 2
                  THEN [buf |-> r.buf, out |-> "raise"]
                  ELSE IF /\ r.result.payload[1] = CMD_PING
                          /\ r.result.payload[2] = ACK_SUCCESS
                       THEN [buf |-> r.buf, out |-> "verified"]
                       ELSE VerifyLoop(r.buf)
             ELSE VerifyLoop(r.buf)

\* ---- the device ----
\* a CRC-valid frame as a device of protocol version ver sends it
FrameWithVer(ver, cmd, payload) ==
    LET data_for_crc == PackBBH(ver, cmd, Len(payload)) \o payload
    IN  <<MAGIC0, MAGIC1>> \o data_for_crc \o PackH(crc16_xmodem(data_for_crc))

PingFrame == BuildFrame(CMD_PING, <<>>)
AckOk == BuildFrame(CMD_ACK, <<CMD_PING, ACK_SUCCESS>>)
HealthFrame == BuildFrame(CMD_GET_LAST_HEALTH_DATA, <<1, 2>>)
Chunk ==
    [notify    |-> BuildFrame(CMD_NOTIFY_HEALTH_DATA_READY, <<7>>),
     head      |-> Slice(HealthFrame, 0, 5),
     tail      |-> Slice(HealthFrame, 5, Len(HealthFrame)),
     mouse     |-> BuildFrame(CMD_GET_MOUSE_DATA, <<9>>),
     ack_long  |-> BuildFrame(CMD_ACK, <<CMD_PING, ACK_SUCCESS, 0>>),
     ack_short |-> BuildFrame(CMD_ACK, <<CMD_PING>>),
     ack_busy  |-> BuildFrame(CMD_ACK, <<CMD_PING, ACK_DEVICE_BUSY>>),
     ack_other |-> BuildFrame(CMD_ACK, <<CMD_START_HEALTH_CHECK, ACK_SUCCESS>>),
     bad_crc   |-> FlipBit(AckOk, 6, 0),
     ack_v1    |-> FrameWithVer(PROTO_VER - 1, CMD_ACK, <<CMD_PING, ACK_SUCCESS>>),
     unknown   |-> BuildFrame(CMD_DEVICE_STATUS_CHECK, <<5>>)]

\* what a device may send unasked; one menu per behaviour
Menus == {{"notify", "head", "tail"},
          {"ack_long", "mouse"},
          {"ack_short", "ack_busy", "ack_other", "bad_crc"},
          {"ack_v1", "unknown"},
          {}}

\* ---- history ----
Count(evs, sig) == Cardinality({i \in 1..Len(evs) : evs[i].sig = sig})
Business(evs) == SelectSeq(evs, LAMBDA e : e.sig \in BusinessSignals)
Since(evs, n) == SubSeq(evs, n + 1, Len(evs))

Snap(running, buf, nconn, open) ==
    [is_running |-> running, read_buffer |-> buf, nconn |-> nconn, link_open |-> open]
Snap0 == Snap(FALSE, <<>>, 0, FALSE)
NoCall == [res |-> "none", cause |-> "", seen |-> <<>>, pre |-> Snap0, post |-> Snap0]
NoHist == [fed |-> <<>>, base |-> 0, iterated |-> FALSE, reads |-> 0,
           lossy |-> FALSE, dropped |-> <<>>,
           recon |-> FALSE, halted |-> FALSE, mark |-> 0, idle |-> FALSE,
           stale |-> <<>>]

\* SerialWorker.__init__ and MainWindow._init_serial
WorkerConstructed ==
    /\ serial_port = "none"
    /\ is_running = FALSE
    /\ read_buffer = <<>>
    /\ port_name = ""
    /\ baudrate = 0
    /\ auto_reconnect = TRUE
    /\ thread_started = FALSE
    /\ pc = [t \in Threads |-> IF t = "fg" THEN "idle" ELSE "off"]
    /\ local_buffer = [t \in Threads |-> <<>>]
    /\ rx = <<>>
    /\ tx = <<>>
    /\ emitted = <<>>
    /\ call = [t \in Threads |-> NoCall]
    /\ hist = NoHist

\* MainWindow.__init__: the button is enabled, no timer runs
WindowConstructed ==
    /\ start_button = TRUE
    /\ detection_timeout_timer = FALSE
    /\ countdown_timer = FALSE
    /\ countdown_remaining = 0
    /\ blink_timer = FALSE

\* ---- connect_serial, step by step ----
\* lines 152-157: the call is entered
EnterConnect(t) ==
    /\ pc' = [pc EXCEPT ![t] = "c_open"]
    /\ call' = [call EXCEPT ![t] =
                  [res |-> "pending", cause |-> "", seen |-> <<>>,
                   pre |-> Snap(is_running, read_buffer,
                                Count(emitted, "connected"), serial_port = "open"),
                   post |-> Snap0]]

\* the call goes on waiting, having read data
Continue(t, data) ==
    /\ pc' = [pc EXCEPT ![t] = "c_wait"]
    /\ call' = [call EXCEPT ![t].seen = @ \o data]
    /\ UNCHANGED thread_started

\* the call returns res ("true", "false") or raises ("raise") to its caller:
\* the main window starts serial_thread if is_running and the thread was
\* never started; _attempt_reconnect leaves its loop or sleeps; an exception
\* ends run
Return(t, res, cause, data) ==
    /\ call' = [call EXCEPT ![t].res = res, ![t].cause = cause,
                            ![t].seen = @ \o data,
                            ![t].post = Snap(is_running', read_buffer',
                                             Count(emitted', "connected"),
                                             serial_port' = "open")]
    /\ IF t = "fg"
       THEN LET start == res # "raise" /\ is_running' /\ ~thread_started
            IN  /\ pc' = [pc EXCEPT !["fg"] = "idle",
                                    !["bg"] = IF start THEN "r_top" ELSE @]
                /\ thread_started' = (thread_started \/ start)
       ELSE /\ pc' = [pc EXCEPT !["bg"] = IF res = "true" THEN "r_top"
                                          ELSE IF res = "false" THEN "sleep5"
                                          ELSE "dead"]
            /\ UNCHANGED thread_started

\* lines 159-177 and 223-231: Serial(), open(), send_frame(CMD_PING)
OpenPort(t) ==
    /\ pc[t] = "c_open"
    /\ \E ok \in BOOLEAN :
        /\ ~ok => budget.openfails > 0
        /\ budget' = IF ok THEN budget ELSE [budget EXCEPT !.openfails = @ - 1]
        /\ rx' = <<>>
        /\ UNCHANGED <<is_running, read_buffer, port_name, baudrate,
                       auto_reconnect, dev, hist>>
        /\ IF ok
           THEN /\ serial_port' = "open"
                /\ tx' = <<PingFrame>>
                /\ local_buffer' = [local_buffer EXCEPT ![t] = <<>>]
                /\ emitted' = emitted
                /\ Continue(t, <<>>)
           ELSE /\ serial_port' = "closed"
                /\ tx' = <<>>
                /\ emitted' = Append(emitted, ErrorOccurred)
                /\ UNCHANGED local_buffer
                /\ Return(t, "false", "open", <<>>)

\* a connect_serial that adds its leftovers to what read_buffer holds
HandshakeRead_Appends(t) ==
    /\ pc[t] = "c_wait"
    /\ serial_port = "open"
    /\ rx # <<>>
    /\ LET h == VerifyLoop(local_buffer[t] \o rx)
       IN  /\ rx' = <<>>
           /\ local_buffer' = [local_buffer EXCEPT ![t] = h.buf]
           /\ UNCHANGED <<serial_port, port_name, baudrate, auto_reconnect,
                          tx, dev, budget>>
           /\ IF h.out = "verified"
              THEN /\ read_buffer' = read_buffer \o h.buf
                   /\ is_running' = TRUE
                   /\ emitted' = Append(emitted, Connected)
                   /\ hist' = [hist EXCEPT
                         !.fed = h.buf, !.base = Len(emitted'),
                         !.iterated = FALSE, !.reads = 0,
                         !.dropped = IF hist.lossy
                                     THEN @ \o _process_read_data(read_buffer, <<>>).evs
                                     ELSE @,
                         !.lossy = FALSE,
                         !.recon = IF t = "bg" THEN FALSE ELSE @]
                   /\ Return(t, "true", "", rx)
              ELSE /\ UNCHANGED <<read_buffer, is_running, emitted, hist>>
                   /\ IF h.out = "raise"
                      THEN Return(t, "raise", "struct", rx)
                      ELSE Continue(t, rx)
\* lines 181-205 and 215-220: one read of the wait loop and what follows it
HandshakeRead(t) ==
    /\ pc[t] = "c_wait"
    /\ serial_port = "open"
    /\ rx # <<>>
    /\ LET h == VerifyLoop(local_buffer[t] \o rx)
       IN  /\ rx' = <<>>
           /\ local_buffer' = [local_buffer EXCEPT ![t] = h.buf]
           /\ UNCHANGED <<serial_port, port_name, baudrate, auto_reconnect,
                          tx, dev, budget>>
           /\ IF h.out = "verified"
              THEN /\ read_buffer' = h.buf
                   /\ is_running' = TRUE
                   /\ emitted' = Append(emitted, Connected)
                   /\ hist' = [hist EXCEPT
                         !.fed = h.buf, !.base = Len(emitted'),
                         !.iterated = FALSE, !.reads = 0,
                         !.dropped = IF hist.lossy
                                     THEN @ \o _process_read_data(read_buffer, <<>>).evs
                                     ELSE @,
                         !.lossy = FALSE,
                         !.recon = IF t = "bg" THEN FALSE ELSE @]
                   /\ Return(t, "true", "", rx)
              ELSE /\ UNCHANGED <<read_buffer, is_running, emitted, hist>>
                   /\ IF h.out = "raise"
                      THEN Return(t, "raise", "struct", rx)
                      ELSE Continue(t, rx)

\* lines 180 and 209-212: the 2 seconds are over
HandshakeTimeout(t) ==
    /\ pc[t] = "c_wait"
    /\ serial_port' = "closed"
    /\ rx' = <<>>
    /\ tx' = <<>>
    /\ UNCHANGED <<is_running, read_buffer, port_name, baudrate, auto_reconnect,
                   local_buffer, dev, budget, emitted, hist>>
    /\ Return(t, "false", "timeout", <<>>)

\* lines 181 and 223-231: in_waiting raises (the link broke, or the port was
\* closed under the call)
HandshakeIOError(t) ==
    /\ pc[t] = "c_wait"
    /\ serial_port # "open" \/ budget.faults > 0
    /\ budget' = IF serial_port = "open"
                 THEN [budget EXCEPT !.faults = @ - 1] ELSE budget
    /\ emitted' = Append(emitted, ErrorOccurred)
    /\ UNCHANGED <<serial_port, is_running, read_buffer, port_name, baudrate,
                   auto_reconnect, local_buffer, rx, tx, dev, hist>>
    /\ Return(t, "false", "io", <<>>)

\* ---- the foreground ----
\* a Connect that enables auto-reconnect again
FgConnect_Rearms ==
    /\ pc["fg"] = "idle"
    /\ budget.clicks > 0
    /\ serial_port # "open"
    /\ budget' = [budget EXCEPT !.clicks = @ - 1]
    /\ port_name' = ComPort
    /\ baudrate' = DEFAULT_BAUD
    /\ auto_reconnect' = TRUE
    /\ hist' = [hist EXCEPT !.halted = FALSE]
    /\ EnterConnect("fg")
    /\ UNCHANGED <<serial_port, is_running, read_buffer,
                   thread_started, local_buffer, rx, tx, dev, emitted>>
\* startup_sequence, on_start_button_clicked, on_mousedata_button_clicked:
\* connect_serial(com_port) when the link is not open
FgConnect ==
    /\ pc["fg"] = "idle"
    /\ budget.clicks > 0
    /\ serial_port # "open"
    /\ budget' = [budget EXCEPT !.clicks = @ - 1]
    /\ port_name' = ComPort
    /\ baudrate' = DEFAULT_BAUD
    /\ hist' = [hist EXCEPT !.halted = FALSE]
    /\ EnterConnect("fg")
    /\ UNCHANGED <<serial_port, is_running, read_buffer, auto_reconnect,
                   thread_started, local_buffer, rx, tx, dev, emitted>>

\* disconnect_serial emitting disconnected whether or not the link was open
FgDisconnect_AlwaysEmits ==
    /\ pc["fg"] = "idle"
    /\ budget.discs > 0
    /\ budget' = [budget EXCEPT !.discs = @ - 1]
    /\ auto_reconnect' = FALSE
    /\ is_running' = FALSE
    /\ serial_port' = IF serial_port = "open" THEN "closed" ELSE serial_port
    /\ rx' = <<>>
    /\ tx' = <<>>
    /\ emitted' = Append(emitted, Disconnected)
    /\ hist' = [hist EXCEPT !.halted = pc["bg"] \in Reconnecting,
                            !.mark = Len(emitted'),
                            !.idle = @ \/ serial_port # "open"]
    /\ pc' = [pc EXCEPT !["bg"] = IF @ = "dead" THEN "off" ELSE @]
    /\ thread_started' = (thread_started /\ pc["bg"] # "dead")
    /\ UNCHANGED <<read_buffer, port_name, baudrate, local_buffer, dev, call>>

\* _shutdown_cleanup: disconnect_serial(), then serial_thread.quit() and
\* wait(1000), which end at once a thread whose run has already ended
FgDisconnect ==
    /\ pc["fg"] = "idle"
    /\ budget.discs > 0
    /\ budget' = [budget EXCEPT !.discs = @ - 1]
    /\ auto_reconnect' = FALSE
    /\ is_running' = FALSE
    /\ IF serial_port = "open"
       THEN /\ serial_port' = "closed"
            /\ rx' = <<>>
            /\ tx' = <<>>
            /\ emitted' = Append(emitted, Disconnected)
       ELSE UNCHANGED <<serial_port, rx, tx, emitted>>
    /\ hist' = [hist EXCEPT !.halted = pc["bg"] \in Reconnecting,
                            !.mark = Len(emitted'),
                            !.idle = @ \/ serial_port # "open"]
    /\ pc' = [pc EXCEPT !["bg"] = IF @ = "dead" THEN "off" ELSE @]
    /\ thread_started' = (thread_started /\ pc["bg"] # "dead")
    /\ UNCHANGED <<read_buffer, port_name, baudrate, local_buffer, dev, call>>

\* ---- the background: run and _attempt_reconnect ----
\* lines 268-269: the loop condition and the is_open test. When is_running
\* is false run returns; it is false only after _shutdown_cleanup, whose
\* serial_thread.quit() then lets the thread finish
RunLoopTop ==
    /\ pc["bg"] = "r_top"
    /\ ~is_running \/ serial_port = "open"
    /\ pc' = [pc EXCEPT !["bg"] = IF is_running THEN "r_read" ELSE "off"]
    /\ thread_started' = is_running
    /\ UNCHANGED <<serial_port, is_running, read_buffer, port_name, baudrate,
                   auto_reconnect, local_buffer, rx, tx, dev,
                   budget, emitted, call, hist>>

\* lines 272-277: read what is waiting, then drain and dispatch
RunRead ==
    /\ pc["bg"] = "r_read"
    /\ serial_port = "open"
    /\ LET d == _process_read_data(AppendRead(read_buffer, rx), <<>>)
       IN  /\ read_buffer' = d.buf
           /\ emitted' = emitted \o d.evs
    /\ rx' = <<>>
    /\ hist' = [hist EXCEPT !.fed = @ \o rx, !.iterated = TRUE,
                            !.reads = IF rx # <<>> /\ @ < 2 THEN @ + 1 ELSE @]
    /\ pc' = [pc EXCEPT !["bg"] = "r_top"]
    /\ UNCHANGED <<serial_port, is_running, port_name, baudrate, auto_reconnect,
                   thread_started, local_buffer, tx, dev, budget, call>>

\* a handler that enters the reconnect loop without testing auto_reconnect
ReadFailure_AlwaysReconnect ==
    /\ pc["bg"] = "r_read"
    /\ serial_port # "open" \/ budget.faults > 0
    /\ budget' = IF serial_port = "open"
                 THEN [budget EXCEPT !.faults = @ - 1] ELSE budget
    /\ emitted' = emitted \o <<ErrorOccurred, Disconnected>>
    /\ serial_port' = "closed"
    /\ rx' = <<>>
    /\ tx' = <<>>
    /\ pc' = [pc EXCEPT !["bg"] = "sleep5"]
    /\ hist' = [hist EXCEPT !.lossy = TRUE, !.recon = TRUE, !.stale = read_buffer]
    /\ UNCHANGED <<is_running, read_buffer, port_name, baudrate, auto_reconnect,
                   thread_started, local_buffer, dev, call>>

\* lines 279-287: in_waiting raises; the link is closed and, with
\* auto_reconnect, the 5 second backoff begins
ReadFailure ==
    /\ pc["bg"] = "r_read"
    /\ serial_port # "open" \/ budget.faults > 0
    /\ budget' = IF serial_port = "open"
                 THEN [budget EXCEPT !.faults = @ - 1] ELSE budget
    /\ emitted' = emitted \o <<ErrorOccurred, Disconnected>>
    /\ serial_port' = "closed"
    /\ rx' = <<>>
    /\ tx' = <<>>
    /\ pc' = [pc EXCEPT !["bg"] = IF auto_reconnect THEN "sleep5" ELSE "r_top"]
    /\ hist' = [hist EXCEPT !.lossy = TRUE, !.recon = auto_reconnect,
                            !.stale = read_buffer]
    /\ UNCHANGED <<is_running, read_buffer, port_name, baudrate, auto_reconnect,
                   thread_started, local_buffer, dev, call>>

\* lines 293-295 after QThread.sleep(5): the condition of the reconnect loop,
\* then connect_serial(self.port_name, self.baudrate)
BackoffElapsed ==
    /\ pc["bg"] = "sleep5"
    /\ IF auto_reconnect /\ is_running
       THEN EnterConnect("bg")
       ELSE /\ pc' = [pc EXCEPT !["bg"] = "r_top"]
            /\ UNCHANGED call
    /\ UNCHANGED <<serial_port, is_running, read_buffer, port_name, baudrate,
                   auto_reconnect, thread_started, local_buffer, rx, tx, dev,
                   budget, emitted, hist>>

\* ---- the device and the link ----
\* the device answers the oldest frame written to it
DeviceReply ==
    /\ serial_port = "open"
    /\ tx # <<>>
    /\ rx' = rx \o (IF Head(tx) = PingFrame THEN AckOk ELSE <<>>)
    /\ tx' = Tail(tx)
    /\ UNCHANGED <<serial_port, is_running, read_buffer, port_name, baudrate,
                   auto_reconnect, thread_started, pc, local_buffer, dev,
                   budget, emitted, call, hist>>

\* the device sends a chunk unasked
DeviceSend(k) ==
    /\ serial_port = "open"
    /\ dev.sent < MaxSends
    /\ k \in dev.menu
    /\ k = "head" => ~dev.half
    /\ k = "tail" => dev.half
    /\ rx' = rx \o Chunk[k]
    /\ dev' = [dev EXCEPT !.sent = @ + 1,
                          !.half = IF k = "head" THEN TRUE
                                   ELSE IF k = "tail" THEN FALSE ELSE @]
    /\ UNCHANGED <<serial_port, is_running, read_buffer, port_name, baudrate,
                   auto_reconnect, thread_started, pc, local_buffer, tx,
                   budget, emitted, call, hist>>

Init ==
    /\ WindowConstructed
    /\ WorkerConstructed
    /\ dev \in {[menu |-> m, sent |-> 0, half |-> FALSE] : m \in Menus}
    /\ budget = [clicks |-> IF dev.menu = {} THEN MaxClicks + 1 ELSE MaxClicks,
                 discs |-> IF dev.menu = {} THEN MaxDisconnects + 1
                           ELSE MaxDisconnects,
                 faults |-> MaxFaults, openfails |-> MaxOpenFails]
    /\ scenario = Scn("none", 0, <<>>, <<>>, 0, 0, <<>>)
    /\ feeds = <<>>
    /\ buffer = <<>>
    /\ outcomes = <<>>
    /\ step = "done"

Next ==
    \/ /\ \/ FgConnect
          \/ FgDisconnect
          \/ \E t \in Threads : OpenPort(t)
          \/ \E t \in Threads : HandshakeRead(t)
          \/ \E t \in Threads : HandshakeTimeout(t)
          \/ \E t \in Threads : HandshakeIOError(t)
          \/ RunLoopTop
          \/ RunRead
          \/ ReadFailure
          \/ BackoffElapsed
          \/ DeviceReply
          \/ \E k \in DOMAIN Chunk : DeviceSend(k)
       /\ UNCHANGED <<cvars, uvars>>

Spec == Init /\ [][Next]_vars

(***************************************************************************)
(* The codec on its own: each scenario's chunks are fed and drained.       *)
(***************************************************************************)
CodecInit ==
    /\ WindowConstructed
    /\ scenario \in Scenarios
    /\ feeds = ChunksOf(scenario)
    /\ buffer = <<>>
    /\ outcomes = <<>>
    /\ step = "feed"
    /\ WorkerConstructed
    /\ dev = [menu |-> {}, sent |-> 0, half |-> FALSE]
    /\ budget = [clicks |-> 0, discs |-> 0, faults |-> 0, openfails |-> 0]

\* run: self.read_buffer += data
FeedChunk ==
    /\ step = "feed"
    /\ feeds # <<>>
    /\ buffer' = buffer \o Head(feeds)
    /\ feeds' = Tail(feeds)
    /\ step' = "drain"
    /\ UNCHANGED <<scenario, outcomes>>

\* one turn of the drain loop: buffer, result = _read_one_frame(buffer)
DecodeOne ==
    /\ step = "drain"
    /\ LET r == _read_one_frame(buffer)
       IN  /\ buffer' = r.buf
           /\ outcomes' = Append(outcomes, r.result)
           /\ step' = IF r.result # None THEN "drain"
                      ELSE IF feeds = <<>> THEN "done" ELSE "feed"
    /\ UNCHANGED <<scenario, feeds>>

CodecNext == (FeedChunk \/ DecodeOne) /\ UNCHANGED <<wvars, uvars>>

SpecCodec == CodecInit /\ [][CodecNext]_vars

(***************************************************************************)
(* The dispatcher on its own: a connected manager whose Receive Loop is    *)
(* about to read one frame that the device has sent.                       *)
(***************************************************************************)
DispatchPayloads == SeqsUpTo({1, 0}, MaxPayloadLen + 1)
DispatchVersions == {PROTO_VER, PROTO_VER - 1}

DispatchInit ==
    /\ WindowConstructed
    /\ scenario \in {Scn("dispatch", c, p, <<>>, v, 0, <<>>) :
                        c \in 0..255, p \in DispatchPayloads, v \in DispatchVersions}
    /\ feeds = <<>>
    /\ buffer = <<>>
    /\ outcomes = <<>>
    /\ step = "done"
    /\ serial_port = "open"
    /\ is_running = TRUE
    /\ read_buffer = <<>>
    /\ port_name = ComPort
    /\ baudrate = DEFAULT_BAUD
    /\ auto_reconnect = TRUE
    /\ thread_started = TRUE
    /\ pc = [t \in Threads |-> IF t = "fg" THEN "idle" ELSE "r_read"]
    /\ local_buffer = [t \in Threads |-> <<>>]
    /\ rx = FrameWithVer(scenario.k, scenario.cmd, scenario.payload)
    /\ tx = <<>>
    /\ dev = [menu |-> {}, sent |-> 1, half |-> FALSE]
    /\ budget = [clicks |-> 0, discs |-> 0, faults |-> 0, openfails |-> 0]
    /\ emitted = <<Connected>>
    /\ call = [t \in Threads |->
                 IF t = "fg"
                 THEN [res |-> "true", cause |-> "", seen |-> AckOk, pre |-> Snap0,
                       post |-> Snap(TRUE, <<>>, 1, TRUE)]
                 ELSE NoCall]
    /\ hist = [NoHist EXCEPT !.base = 1]

DispatchNext == (RunRead \/ RunLoopTop) /\ UNCHANGED <<cvars, uvars>>

SpecDispatch == DispatchInit /\ [][DispatchNext]_vars

(***************************************************************************)
(* send_frame called by the main window (button handlers and their         *)
(* timers) at any moment of a session with a device that only answers      *)
(* PING: one call, with a command, a payload and an outcome of write.      *)
(***************************************************************************)
WriteOutcomes == {"ok", "timeout", "error"}
SendCmds == {CMD_START_HEALTH_CHECK, CMD_GET_MOUSE_DATA}
SendLens == {0, MaxPayloadLen, MaxUint16 + 1}

\* what one call does: its outcome, the signals it emits, the frames it
\* writes, and the port it leaves. wr is what serial_port.write does.
\* struct.pack('<BBH', ...) raises struct.error for a length above 65535.
\* a send that packs the length modulo 65536 instead of refusing it
send_frame_Truncates(port, cmd, payload, wr) ==
    IF port # "open"
    THEN [out |-> "not_connected", evs |-> <<ErrorOccurred>>,
          written |-> <<>>, port |-> port]
    ELSE IF wr = "ok"
    THEN [out |-> "written", evs |-> <<>>,
          written |-> <<BuildFrame(cmd, Slice(payload, 0,
                                              Len(payload) % (MaxUint16 + 1)))>>,
          port |-> port]
    ELSE [out |-> wr, evs |-> <<ErrorOccurred>>, written |-> <<>>, port |-> port]

\* a send that treats a failed write as the loss of the link
send_frame_CloseOnError(port, cmd, payload, wr) ==
    IF port # "open"
    THEN [out |-> "not_connected", evs |-> <<ErrorOccurred>>,
          written |-> <<>>, port |-> port]
    ELSE IF Len(payload) > MaxUint16
    THEN [out |-> "struct.error", evs |-> <<>>, written |-> <<>>, port |-> port]
    ELSE IF wr = "ok"
    THEN [out |-> "written", evs |-> <<>>,
          written |-> <<BuildFrame(cmd, payload)>>, port |-> port]
    ELSE [out |-> wr, evs |-> <<ErrorOccurred, Disconnected>>,
          written |-> <<>>, port |-> "closed"]

send_frame(port, cmd, payload, wr) ==
    IF port # "open"
    THEN [out |-> "not_connected", evs |-> <<ErrorOccurred>>,
          written |-> <<>>, port |-> port]
    ELSE IF Len(payload) > MaxUint16
    THEN [out |-> "struct.error", evs |-> <<>>, written |-> <<>>, port |-> port]
    ELSE IF wr = "ok"
    THEN [out |-> "written", evs |-> <<>>,
          written |-> <<BuildFrame(cmd, payload)>>, port |-> port]
    ELSE [out |-> wr, evs |-> <<ErrorOccurred>>, written |-> <<>>, port |-> port]

SendInit ==
    /\ WindowConstructed
    /\ WorkerConstructed
    /\ dev = [menu |-> {}, sent |-> 0, half |-> FALSE]
    /\ budget = [clicks |-> MaxClicks, discs |-> MaxDisconnects,
                 faults |-> MaxFaults, openfails |-> MaxOpenFails]
    /\ scenario \in {Scn("send", c, <<>>, <<>>, n, 0, <<>>) :
                        c \in SendCmds, n \in SendLens}
    /\ feeds = <<>>
    /\ buffer = <<>>
    /\ outcomes = <<>>
    /\ step = "feed"

\* the main window calls send_frame(cmd, payload); the payload is
\* scenario.k zero bytes
FgSend ==
    /\ step = "feed"
    /\ pc["fg"] = "idle"
    /\ \E wr \in WriteOutcomes :
         LET r == send_frame(serial_port, scenario.cmd,
                             [i \in 1..scenario.k |-> 0], wr)
         IN  /\ outcomes' = <<r.out>>
             /\ emitted' = emitted \o r.evs
             /\ tx' = tx \o r.written
             /\ serial_port' = r.port
    /\ step' = "done"
    /\ UNCHANGED <<scenario, feeds, buffer, is_running, read_buffer, port_name,
                   baudrate, auto_reconnect, thread_started, pc, local_buffer,
                   rx, dev, budget, call, hist>>
    /\ UNCHANGED uvars

SendNext ==
    \/ /\ \/ FgConnect
          \/ FgDisconnect
          \/ \E t \in Threads : OpenPort(t)
          \/ \E t \in Threads : HandshakeRead(t)
          \/ \E t \in Threads : HandshakeTimeout(t)
          \/ \E t \in Threads : HandshakeIOError(t)
          \/ RunLoopTop
          \/ RunRead
          \/ ReadFailure
          \/ BackoffElapsed
          \/ DeviceReply
       /\ UNCHANGED <<cvars, uvars>>
    \/ FgSend

SpecSend == SendInit /\ [][SendNext]_vars

(***************************************************************************)
(* crc16_xmodem on its own: one input, one call.                           *)
(***************************************************************************)
CheckString == <<49, 50, 51, 52, 53, 54, 55, 56, 57>>   \* b"123456789"

CrcInputs ==
    {<<>>, CheckString}
    \cup {<<b>> : b \in 0..255}
    \cup {<<a, b>> : a \in {0, 128, MAGIC0, 255}, b \in 0..255}
    \cup {[i \in 1..n |-> b] : n \in 3..MaxRunLen, b \in {1, 128, 255}}

CrcInit ==
    /\ WindowConstructed
    /\ scenario \in {Scn("crc", 0, d, <<>>, 0, 0, <<>>) : d \in CrcInputs}
    /\ feeds = <<>>
    /\ buffer = scenario.payload
    /\ outcomes = <<>>
    /\ step = "feed"
    /\ WorkerConstructed
    /\ dev = [menu |-> {}, sent |-> 0, half |-> FALSE]
    /\ budget = [clicks |-> 0, discs |-> 0, faults |-> 0, openfails |-> 0]

\* calculated_crc = crc16_xmodem(data)
ApplyCrc ==
    /\ step = "feed"
    /\ scenario.kind = "crc"
    /\ outcomes' = <<crc16_xmodem(buffer)>>
    /\ step' = "done"
    /\ UNCHANGED <<scenario, feeds, buffer>>

CrcNext == ApplyCrc /\ UNCHANGED <<wvars, uvars>>

SpecCrc == CrcInit /\ [][CrcNext]_vars

(***************************************************************************)
(* The main window's consumers of the mouse and health events              *)
(* (src/main_window.py, src/mouse_handler.py): one payload, one call.      *)
(* buffer is what the persistence sink was handed, outcomes what the       *)
(* handler did to the window.  A decoded uint32 is a Python int, a set of  *)
(* bit positions.                                                          *)
(***************************************************************************)
\* struct.unpack('>I', b)
UnpackI_BigEndian(b) == UNION {Shl(BitsOf(b[k]), 8 * (4 - k)) : k \in 1..4}
\* struct.unpack('<I', b)
UnpackI(b) == UNION {Shl(BitsOf(b[k]), 8 * (k - 1)) : k \in 1..4}

ValueError == [ok |-> FALSE, value |-> <<>>]

\* a parser that returns the fields in wire order
parse_payload_WireOrder(payload) ==
    IF Len(payload) >= 16
    THEN LET distance == UnpackI(Slice(payload, 0, 4))
             left == UnpackI(Slice(payload, 4, 8))
             right == UnpackI(Slice(payload, 8, 12))
             mid == UnpackI(Slice(payload, 12, 16))
         IN  [ok |-> TRUE, value |-> <<distance, left, right, mid>>]
    ELSE IF Len(payload) = 8
    THEN [ok |-> TRUE, value |-> <<UnpackI(Slice(payload, 0, 4)),
                                   UnpackI(Slice(payload, 4, 8)), {}, {}>>]
    ELSE ValueError

\* MouseDataProcessor.parse_payload: (distance, left, mid, right)
parse_payload(payload) ==
    IF Len(payload) >= 16
    THEN LET distance == UnpackI(Slice(payload, 0, 4))
             left == UnpackI(Slice(payload, 4, 8))
             right == UnpackI(Slice(payload, 8, 12))
             mid == UnpackI(Slice(payload, 12, 16))
         IN  [ok |-> TRUE, value |-> <<distance, left, mid, right>>]
    ELSE IF Len(payload) = 8
    THEN [ok |-> TRUE, value |-> <<UnpackI(Slice(payload, 0, 4)),
                                   UnpackI(Slice(payload, 4, 8)), {}, {}>>]
    ELSE ValueError

\* MouseDataProcessor.process_payload: parse, then
\* db_handler.save_or_update_mouse_data(distance_px, left, mid, right)
process_payload(payload, db) ==
    LET r == parse_payload(payload)
    IN  IF r.ok THEN [ok |-> TRUE, value |-> r.value, db |-> Append(db, r.value)]
        ELSE [ok |-> FALSE, value |-> <<>>, db |-> db]

\* what a handler did: what it logged, the values it put on the labels,
\* whether it reset the detection state
Did(log, labels, reset) == [log |-> log, labels |-> labels, reset |-> reset]

\* MainWindow.on_mouse_data_received
on_mouse_data_received(payload, db) ==
    LET r == process_payload(payload, db)
    IN  IF r.ok THEN [did |-> Did("mouse", r.value, FALSE), db |-> r.db]
        ELSE [did |-> Did("mouse_error", <<>>, FALSE), db |-> r.db]

\* struct.calcsize('<BBBBBBBBBBBBBI'): no padding with '<'
HealthFormatSize == 17

\* struct.unpack('<BBBBBBBBBBBBBI', data): the buffer must be exactly
\* HealthFormatSize bytes long, else struct.error
UnpackHealth(data) ==
    IF Len(data) # HealthFormatSize THEN [ok |-> FALSE, value |-> <<>>]
    ELSE [ok |-> TRUE,
          value |-> [i \in 1..14 |-> IF i <= 13 THEN BitsOf(data[i])
                                     ELSE UnpackI(Slice(data, 13, 17))]]

\* MainWindow.on_health_data_received: the length test, the decoding, the
\* labels, db_handler.save_record_if_new, _reset_detection_state
on_health_data_received(data, db) ==
    IF Len(data) >= 16
    THEN LET r == UnpackHealth(data)
         IN  IF r.ok
             THEN [did |-> Did("health", r.value, TRUE), db |-> Append(db, r.value)]
             ELSE [did |-> Did("health_struct_error", <<>>, FALSE), db |-> db]
    ELSE [did |-> Did("health_length", <<>>, FALSE), db |-> db]

PayloadSeeds == {1, 37, 255}
Pattern(n, seed) == [i \in 1..n |-> (seed * i + seed) % 256]

PayloadInit ==
    /\ WindowConstructed
    /\ scenario \in {Scn(kind, 0, Pattern(n, seed), <<>>, 0, 0, <<>>) :
                        kind \in {"mouse", "health"}, n \in 0..MaxDataLen,
                        seed \in PayloadSeeds}
    /\ feeds = <<>>
    /\ buffer = <<>>
    /\ outcomes = <<>>
    /\ step = "feed"
    /\ WorkerConstructed
    /\ dev = [menu |-> {}, sent |-> 0, half |-> FALSE]
    /\ budget = [clicks |-> 0, discs |-> 0, faults |-> 0, openfails |-> 0]

\* the mouse_data_received signal reaches its slot
OnMouseData ==
    /\ step = "feed"
    /\ scenario.kind = "mouse"
    /\ LET r == on_mouse_data_received(scenario.payload, buffer)
       IN  /\ buffer' = r.db
           /\ outcomes' = <<r.did>>
    /\ step' = "done"
    /\ UNCHANGED <<scenario, feeds>>

\* the health_data_received signal reaches its slot
OnHealthData ==
    /\ step = "feed"
    /\ scenario.kind = "health"
    /\ LET r == on_health_data_received(scenario.payload, buffer)
       IN  /\ buffer' = r.db
           /\ outcomes' = <<r.did>>
    /\ step' = "done"
    /\ UNCHANGED <<scenario, feeds>>

PayloadNext == (OnMouseData \/ OnHealthData) /\ UNCHANGED <<wvars, uvars>>

SpecPayload == PayloadInit /\ [][PayloadNext]_vars

(***************************************************************************)
(* The health check of the main window: its button and its timers, with   *)
(* the worker's signals arriving in any order (SpecUi).                    *)
(***************************************************************************)
\* on_ack_received: self.countdown_remaining = 90
CountdownSeconds == 90

\* a _reset_detection_state that leaves the button as it is
_reset_detection_state_KeepsButton ==
    /\ blink_timer' = FALSE
    /\ countdown_timer' = FALSE
    /\ countdown_remaining' = 0
    /\ detection_timeout_timer' = FALSE
    /\ UNCHANGED start_button
\* _reset_detection_state: _stop_blinking, _stop_countdown, the timeout
\* timer stopped, the button enabled
_reset_detection_state ==
    /\ blink_timer' = FALSE
    /\ countdown_timer' = FALSE
    /\ countdown_remaining' = 0
    /\ detection_timeout_timer' = FALSE
    /\ start_button' = TRUE

\* on_start_button_clicked (only an enabled button is clicked): blinking
\* and the timeout timer start, the button is disabled; then either the
\* command is sent or scheduled ("sent"), or connect_serial emits
\* error_occurred, whose slot _show_error runs inside the call ("error"),
\* or an exception reaches the except clause ("exception")
StartOutcomes == {"sent", "error", "exception"}
StartFrame == BuildFrame(CMD_START_HEALTH_CHECK, <<>>)
on_start_button_clicked ==
    /\ start_button
    /\ Len(tx) < MaxPending
    /\ \E out \in StartOutcomes :
         IF out = "sent"
         THEN /\ blink_timer' = TRUE
              /\ detection_timeout_timer' = TRUE
              /\ start_button' = FALSE
              /\ tx' = Append(tx, StartFrame)
              /\ UNCHANGED <<countdown_timer, countdown_remaining>>
         ELSE /\ _reset_detection_state
              /\ UNCHANGED tx

\* _show_error: the error_occurred signal reaches its slot, or a handler
\* caught an exception
_show_error == _reset_detection_state /\ UNCHANGED tx

\* on_ack_received(original_cmd, status_code)
AckCmds == {CMD_START_HEALTH_CHECK, CMD_PING}
AckStatuses == {ACK_SUCCESS, ACK_UNKNOWN_CMD, ACK_DEVICE_BUSY, 255}
\* (the device acknowledges a start command that was sent to it)
on_ack_received ==
    \E original_cmd \in AckCmds, status_code \in AckStatuses :
        IF original_cmd = CMD_START_HEALTH_CHECK
        THEN /\ tx # <<>>
             /\ tx' = Tail(tx)
             /\ IF status_code = ACK_SUCCESS
                THEN /\ countdown_remaining' = CountdownSeconds
                     /\ start_button' = FALSE
                     /\ countdown_timer' = TRUE
                     /\ UNCHANGED <<detection_timeout_timer, blink_timer>>
                ELSE _reset_detection_state
        ELSE UNCHANGED <<uvars, tx>>

\* on_detection_timeout: the single-shot timer fires
on_detection_timeout ==
    /\ detection_timeout_timer
    /\ _reset_detection_state
    /\ UNCHANGED tx

\* _on_countdown_tick: the countdown timer fires
_on_countdown_tick ==
    /\ countdown_timer
    /\ countdown_remaining' =
           IF countdown_remaining > 0 THEN countdown_remaining - 1 ELSE 0
    /\ countdown_timer' = (countdown_remaining' > 0)
    /\ UNCHANGED <<start_button, detection_timeout_timer, blink_timer, tx>>

\* the health_data_received signal reaches its slot: the timeout timer,
\* the blinking and the countdown are stopped, then the payload is handled
HealthDataReceived ==
    \E n \in 0..MaxDataLen :
        LET r == on_health_data_received(Pattern(n, 1), <<>>)
        IN  /\ detection_timeout_timer' = FALSE
            /\ blink_timer' = FALSE
            /\ countdown_timer' = FALSE
            /\ countdown_remaining' = 0
            /\ start_button' = (IF r.did.reset THEN TRUE ELSE start_button)
            /\ UNCHANGED tx

UiInit ==
    /\ WindowConstructed
    /\ WorkerConstructed
    /\ dev = [menu |-> {}, sent |-> 0, half |-> FALSE]
    /\ budget = [clicks |-> 0, discs |-> 0, faults |-> 0, openfails |-> 0]
    /\ scenario = Scn("ui", 0, <<>>, <<>>, 0, 0, <<>>)
    /\ feeds = <<>>
    /\ buffer = <<>>
    /\ outcomes = <<>>
    /\ step = "done"

UiNext ==
    /\ \/ on_start_button_clicked
       \/ _show_error
       \/ on_ack_received
       \/ on_detection_timeout
       \/ _on_countdown_tick
       \/ HealthDataReceived
    /\ UNCHANGED <<cvars, serial_port, is_running, read_buffer, port_name,
                   baudrate, auto_reconnect, thread_started, pc, local_buffer,
                   rx, dev, budget, emitted, call, hist>>

SpecUi == UiInit /\ [][UiNext]_vars

(***************************************************************************)
(* Properties of the frame codec (checked under SpecCodec)                 *)
(***************************************************************************)
TheFrame == FrameOf(scenario.cmd, scenario.payload, PROTO_VER)
Resync1 == FrameOf(1, <<65>>, PROTO_VER)
Resync2 == FrameOf(2, <<66, 67>>, PROTO_VER)
HasMagic(b) == Find(b) # -1

\* C1: round trip. The bytes send_frame builds for (cmd, payload), handed to
\* _read_one_frame as the whole buffer, give exactly one valid frame with
\* version PROTO_VER, the same command id and the same payload; the
\* remainder is empty and the next call returns None (Incomplete).
C1_RoundTrip ==
    (scenario.kind = "roundtrip" /\ step = "done") =>
        /\ outcomes = <<TheFrame, None>>
        /\ buffer = <<>>

C1_Witness ==
    /\ scenario.kind = "roundtrip" /\ step = "done"
    /\ scenario.cmd = 255 /\ Len(scenario.payload) = MaxPayloadLen
    /\ outcomes[1].kind = "frame"

\* C2 as stated: for ANY three noise bytes N, draining
\* BuildFrame(1,"A") + N + BuildFrame(2,"BC") yields exactly the two valid
\* frames, command 1 then command 2, and nothing else.
C2_AnyNoise ==
    (scenario.kind = "resync" /\ step = "done") =>
        /\ outcomes = <<Resync1, Resync2, None>>
        /\ buffer = <<>>

\* C2 amended: the same for every three noise bytes that hold no adjacent
\* 0xAA 0x55 pair.
C2_Resync ==
    (scenario.kind = "resync" /\ step = "done" /\ ~HasMagic(scenario.noise)) =>
        /\ outcomes = <<Resync1, Resync2, None>>
        /\ buffer = <<>>

C2_Witness ==
    /\ scenario.kind = "resync" /\ step = "done"
    /\ scenario.noise = <<MAGIC1, 255, MAGIC0>>
    /\ Len(outcomes) = 3

\* what the code does with a magic pair inside the noise: frame 1 alone is
\* decoded and the second frame stays buffered behind the false header
C2_MagicNoiseStalls ==
    (scenario.kind = "resync" /\ step = "done" /\ HasMagic(scenario.noise)) =>
        /\ outcomes = <<Resync1, None>>
        /\ buffer # <<>>

\* C3: corruption. With one bit of the payload or of the CRC field of a
\* valid frame inverted, the first call returns Invalid (False) and consumes
\* exactly that frame's bytes, and every well-formed frame appended after it
\* is decoded on the following calls.
C3_Corruption ==
    (scenario.kind = "corrupt" /\ outcomes # <<>>) =>
        /\ outcomes[1] = Invalid
        /\ Len(outcomes) = 1 => buffer = EncodeAll(scenario.tail)
        /\ step = "done" =>
              /\ outcomes = <<Invalid>> \o scenario.tail \o <<None>>
              /\ buffer = <<>>

C3_Witness ==
    /\ scenario.kind = "corrupt" /\ step = "done"
    /\ scenario.k = 6 /\ Len(scenario.payload) = MaxPayloadLen
    /\ Len(scenario.tail) = 2
    /\ Len(outcomes) = 4

\* C4: partial delivery. A valid frame cut at any byte boundary k,
\* 0 < k < length: the call after the first part returns None and keeps
\* every byte of it; the drain after the second part returns the frame
\* exactly once, then None with an empty buffer.
C4_PartialDelivery ==
    scenario.kind = "split" =>
        /\ (step = "feed" /\ Len(feeds) = 1) =>
              /\ outcomes = <<None>>
              /\ buffer = Slice(BuildFrame(scenario.cmd, scenario.payload), 0, scenario.k)
        /\ step = "done" =>
              /\ outcomes = <<None, TheFrame, None>>
              /\ buffer = <<>>

C4_Witness ==
    /\ scenario.kind = "split" /\ step = "done"
    /\ scenario.k = 1
    /\ Len(outcomes) = 3 /\ outcomes[2].kind = "frame"


(***************************************************************************)
(* Properties of the connection manager (checked under Spec)               *)
(***************************************************************************)
\* the valid frames a byte string holds, in order
RECURSIVE FramesIn(_, _)
FramesIn(buf, fs) ==
    LET r == _read_one_frame(buf)
    IN  IF r.result = None THEN fs
        ELSE IF r.result = Invalid THEN FramesIn(r.buf, fs)
        ELSE FramesIn(r.buf, Append(fs, r.result))

VerifyingAck(f) == f.cmd = CMD_ACK /\ f.payload = <<CMD_PING, ACK_SUCCESS>>
HoldsVerifyingAck(bytes) ==
    LET fs == FramesIn(bytes, <<>>) IN \E i \in 1..Len(fs) : VerifyingAck(fs[i])

\* C5 without its clause on skipped frames: a connect_serial call returns
\* True exactly when the bytes it read hold a CRC-valid ACK(PING, SUCCESS),
\* with is_running true and one connected event emitted by the call; it
\* keeps waiting, or times out, only while they hold none.
C5_SuccessIffAck ==
    \A t \in Threads :
        /\ call[t].res = "true" =>
              /\ HoldsVerifyingAck(call[t].seen)
              /\ call[t].post.is_running
              /\ call[t].post.nconn = call[t].pre.nconn + 1
        /\ (pc[t] = "c_wait" \/ call[t].cause = "timeout") =>
              ~HoldsVerifyingAck(call[t].seen)

\* C5: handshake. connect_serial returns True iff a CRC-valid
\* ACK(PING, SUCCESS) is decoded from the bytes it received before the
\* timeout, then with is_running true and exactly one connected event; every
\* other decoded frame (in particular an ACK whose payload is not exactly 2
\* bytes) is skipped and the wait continues, so the call never ends in any
\* other way than returning.
C5_Handshake ==
    /\ C5_SuccessIffAck
    /\ \A t \in Threads : call[t].res # "raise"

\* C6: a failed Connect leaves the manager not connected. Whenever
\* connect_serial has returned False, the link is not open at the return, the
\* call emitted no connected event, and is_running and read_buffer have the
\* values they had when the call was entered.
C6_FailedConnect ==
    \A t \in Threads :
        call[t].res = "false" =>
            /\ ~call[t].post.link_open
            /\ call[t].post.nconn = call[t].pre.nconn
            /\ call[t].post.is_running = call[t].pre.is_running
            /\ call[t].post.read_buffer = call[t].pre.read_buffer

\* C7: auto-reconnect. Once a read error with auto_reconnect enabled has
\* closed the link, the background task stays in the cycle (backoff wait,
\* connect_serial) until an attempt succeeds or Disconnect is invoked.
C7_ReconnectUntilSuccess ==
    (hist.recon /\ auto_reconnect /\ is_running) => pc["bg"] \in Reconnecting

\* C8: Disconnect halts reconnection. After disconnect_serial was invoked
\* while the background task was Reconnecting (in the backoff wait or inside
\* a reconnect attempt), is_running stays false and no connected event is
\* emitted.
C8_DisconnectHalts ==
    hist.halted =>
        /\ ~is_running
        /\ \A i \in (hist.mark + 1)..Len(emitted) : emitted[i].sig # "connected"

\* C9: ordering. The business events emitted since the connection was
\* established are exactly what the valid frames of the bytes handed to the
\* Receive Loop (the handshake leftovers, then every read, in order) give,
\* frame by frame in wire order; and after an iteration of the loop nothing
\* decodable is left in read_buffer.
C9_Ordering ==
    LET ref == _process_read_data(hist.fed, <<>>)
        got == Business(Since(emitted, hist.base))
    IN  IF hist.iterated
        THEN /\ got = ref.evs
             /\ read_buffer = ref.buf
             /\ _read_one_frame(read_buffer).result = None
        ELSE /\ got = <<>>
             /\ read_buffer = hist.fed

\* a frame that arrived in two reads was dispatched, once, by the second
C9_Witness ==
    /\ hist.iterated /\ hist.reads = 2
    /\ Business(Since(emitted, hist.base)) =
           <<Ev("health_data_received", 0, 0, <<1, 2>>)>>
    /\ read_buffer = <<>>

\* C10: reconnect preserves frames. No frame that was read completely
\* before a read failure is discarded undispatched when the link is
\* re-established.
C10_ReconnectPreservesFrames == hist.dropped = <<>>

\* the bytes of b after the first occurrence in b of one of the byte strings pats
AfterFirst(b, pats) ==
    LET ends == {i + Len(q) : i \in 0..Len(b), q \in pats} \cap
                {e \in 0..Len(b) : \E q \in pats :
                     e >= Len(q) /\ SubSeq(b, e - Len(q) + 1, e) = q}
    IN  IF ends = {} THEN <<>>
        ELSE SubSeq(b, (CHOOSE e \in ends : \A f \in ends : e <= f) + 1, Len(b))

\* the frames that connect_serial takes as the verifying ACK
VerifyingFrames == {AckOk, Chunk.ack_v1}

\* C11, first half: when connect_serial returns True, read_buffer holds
\* exactly the bytes the call read after the verifying ACK frame, in order.
C11_LeftoversInBuffer ==
    \A t \in Threads :
        call[t].res = "true" =>
            call[t].post.read_buffer = AfterFirst(call[t].seen, VerifyingFrames)

\* C11: handshake leftovers are preserved. The bytes received after the
\* verifying ACK are in read_buffer when connect_serial returns, and no
\* complete frame among them is ever discarded without being dispatched.
C11_LeftoversPreserved ==
    /\ C11_LeftoversInBuffer
    /\ Business(hist.dropped) = <<>>


\* C12: the Receive Loop runs whenever the connection is open. After a
\* Connect issued by the main window has succeeded, for as long as the link
\* is open and is_running is true, run is executing on the background thread.
C12_LoopRunsWhileOpen ==
    (call["fg"].res = "true" /\ pc["fg"] = "idle"
        /\ serial_port = "open" /\ is_running)
    => pc["bg"] \notin {"off", "dead"}


\* C13: no protocol anomaly terminates the background task. Whatever frames
\* arrive (CRC mismatch, unknown command, ACK payload of a length other than
\* 2, foreign protocol version), in normal reception or during the handshake
\* of a reconnect attempt, run is never ended by an exception.
C13_NoAnomalyEndsRun == pc["bg"] # "dead" /\ call["bg"].cause # "struct"


InConnect == {"c_open", "c_wait"}

\* C14, its particular case: the two threads are never inside connect_serial
\* at the same time.
C14_NoOverlappingConnect == ~(pc["fg"] \in InConnect /\ pc["bg"] \in InConnect)

\* C14: exclusive ownership. The foreground executes connect_serial, which
\* replaces serial_port and read_buffer, only while run is not executing on
\* the background thread; in particular never during a reconnect attempt.
C14_ExclusiveOwnership ==
    /\ pc["fg"] \in InConnect => pc["bg"] \in {"off", "dead"}
    /\ C14_NoOverlappingConnect


\* a step that is a disconnect_serial call
DisconnectStep == budget'.discs = budget.discs - 1

\* C15: Disconnect is idempotent. Every disconnect_serial call leaves
\* auto_reconnect false, is_running false and the link closed, and emits
\* disconnected exactly when the link was open; a call made in the state a
\* Disconnect leaves changes no field of the manager and emits nothing.
C15_DisconnectIdempotent ==
    [][DisconnectStep =>
         /\ ~auto_reconnect' /\ ~is_running' /\ serial_port' # "open"
         /\ emitted' = IF serial_port = "open"
                       THEN Append(emitted, Disconnected) ELSE emitted
         /\ (~auto_reconnect /\ ~is_running /\ serial_port # "open") =>
                UNCHANGED <<serial_port, is_running, read_buffer, port_name,
                            baudrate, auto_reconnect, emitted>>
      ]_vars

\* Connect, Disconnect on the open link, Disconnect again
C15_Witness ==
    /\ dev.menu = {} /\ budget.discs = MaxDisconnects - 1
    /\ emitted = <<Connected, Disconnected>>
    /\ ~auto_reconnect /\ ~is_running /\ serial_port = "closed"


(***************************************************************************)
(* Properties of the dispatcher (checked under SpecDispatch)               *)
(***************************************************************************)
\* the dispatch table as the claim gives it
TableEvents(cmd, payload) ==
    CASE cmd = 127 -> IF Len(payload) = 2
                      THEN <<Ev("ack_received", payload[1], payload[2], <<>>)>>
                      ELSE <<>>
      [] cmd \in {128, 33} -> <<Ev("health_data_received", 0, 0, payload)>>
      [] cmd = 34 -> <<Ev("mouse_data_received", 0, 0, payload)>>
      [] OTHER -> <<>>

Dispatched == hist.iterated /\ scenario.kind = "dispatch"

\* C16: dispatch table. A CRC-valid frame of version PROTO_VER makes the
\* dispatcher emit what the table gives for its command id, and nothing
\* else: 0x7F an Acknowledgement(payload[0], payload[1]) when the payload is
\* 2 bytes, 0x80 and 0x21 HealthDataReady with the payload unchanged, 0x22
\* MouseData with the payload unchanged, any other id no event.
C16_DispatchTable ==
    (Dispatched /\ scenario.k = PROTO_VER) =>
        /\ Since(emitted, 1) = TableEvents(scenario.cmd, scenario.payload)
        /\ read_buffer = <<>>

C16_Witness ==
    /\ Dispatched /\ scenario.k = PROTO_VER
    /\ scenario.cmd = 33 /\ Len(scenario.payload) = MaxPayloadLen + 1
    /\ Len(emitted) = 2


\* C17: a valid ACK frame whose payload is not exactly 2 bytes long (0, 1 or
\* 3 bytes) produces no Acknowledgement event nor any other, and leaves the
\* connection as it was: link open, is_running and auto_reconnect true, the
\* Receive Loop going on.
C17_MalformedAckDropped ==
    (Dispatched /\ scenario.k = PROTO_VER /\ scenario.cmd = CMD_ACK
        /\ Len(scenario.payload) # 2)
    => /\ emitted = <<Connected>>
       /\ serial_port = "open" /\ is_running /\ auto_reconnect
       /\ read_buffer = <<>>
       /\ pc["bg"] \in {"r_top", "r_read"}

C17_Witness ==
    /\ Dispatched /\ scenario.k = PROTO_VER /\ scenario.cmd = CMD_ACK
    /\ scenario.payload = <<CMD_PING, ACK_SUCCESS, 0>>
    /\ pc["bg"] = "r_top"


\* C18, the Receive Loop's half: a CRC-valid frame of another protocol
\* version read by the loop emits no event and changes nothing of the
\* connection (checked under SpecDispatch).
C18_LoopDiscardsForeignVersion ==
    (Dispatched /\ scenario.k # PROTO_VER)
    => /\ emitted = <<Connected>>
       /\ serial_port = "open" /\ is_running /\ auto_reconnect
       /\ read_buffer = <<>>

\* C18: version mismatch is discarded everywhere. In particular a frame of
\* another protocol version never completes the handshake: a connect_serial
\* call that returned True has read a CRC-valid ACK(PING, SUCCESS) frame
\* whose version is PROTO_VER.
C18_VersionMismatchDiscarded ==
    \A t \in Threads :
        call[t].res = "true" =>
            LET fs == FramesIn(call[t].seen, <<>>)
            IN  \E i \in 1..Len(fs) : VerifyingAck(fs[i]) /\ fs[i].ver = PROTO_VER


(***************************************************************************)
(* Properties of the CRC engine (checked under SpecCrc)                    *)
(***************************************************************************)
\* the reference CRC-16/XMODEM on a 16-bit register: initial value 0,
\* polynomial 0x1021 = 4129, most significant bit first, the register
\* masked to 16 bits at every step, no final XOR
RECURSIVE RefXor(_, _, _)
RefXor(a, b, i) ==
    IF i = 16 THEN 0
    ELSE (((a \div 2^i) + (b \div 2^i)) % 2) * 2^i + RefXor(a, b, i + 1)

RECURSIVE RefBits(_, _)
RefBits(reg, n) ==
    IF n = 0 THEN reg
    ELSE IF reg >= 32768
         THEN RefBits(RefXor((reg * 2) % 65536, 4129, 0), n - 1)
         ELSE RefBits((reg * 2) % 65536, n - 1)

RECURSIVE RefCrc(_, _, _)
RefCrc(reg, data, i) ==
    IF i > Len(data) THEN reg
    ELSE RefCrc(RefBits(RefXor(reg, data[i] * 256, 0), 8), data, i + 1)

\* C19: CRC engine. crc16_xmodem(data) equals the reference CRC-16/XMODEM
\* and lies in 0..0xFFFF; b"123456789" gives 0x31C3 and b"" gives 0.
C19_CrcEngine ==
    (scenario.kind = "crc" /\ step = "done") =>
        /\ outcomes[1] = RefCrc(0, scenario.payload, 1)
        /\ outcomes[1] \in 0..65535
        /\ scenario.payload = CheckString => outcomes[1] = 12739
        /\ scenario.payload = <<>> => outcomes[1] = 0

C19_Witness ==
    /\ scenario.kind = "crc" /\ step = "done"
    /\ scenario.payload = CheckString
    /\ outcomes = <<12739>>


(***************************************************************************)
(* Properties of the encoder (checked under SpecCodec)                     *)
(***************************************************************************)
\* the layout the claim gives, byte by byte, with the reference CRC
LayoutOf(cmd, payload) ==
    LET n == Len(payload)
        covered == <<PROTO_VER, cmd, n % 256, n \div 256>> \o payload
        crc == RefCrc(0, covered, 1)
    IN  <<170, 85>> \o covered \o <<crc % 256, crc \div 256>>

Encoded == scenario.kind = "roundtrip" /\ step = "drain" /\ outcomes = <<>>

\* C20: encode layout. The bytes send_frame builds for (cmd, payload) are
\* 0xAA 0x55, PROTO_VER, cmd, the payload length as little-endian uint16, the
\* payload, and the little-endian CRC-16/XMODEM of everything between the
\* magic and the CRC; 8 + len(payload) bytes in all.
C20_EncodeLayout ==
    Encoded =>
        /\ buffer = LayoutOf(scenario.cmd, scenario.payload)
        /\ Len(buffer) = 8 + Len(scenario.payload)

C20_Witness ==
    /\ Encoded
    /\ scenario.cmd = CMD_ACK
    /\ scenario.payload = <<MAGIC0, MAGIC1>>
    /\ SubSeq(buffer, 1, 8) = <<170, 85, 2, 127, 2, 0, 170, 85>>


(***************************************************************************)
(* Properties of the receive buffer (checked under SpecCodec)              *)
(***************************************************************************)
\* a drain has just returned: _read_one_frame gave None
Drained == outcomes # <<>> /\ outcomes[Len(outcomes)] = None /\ step # "drain"

\* a prefix of a frame: the magic, then fewer bytes than the header declares
PartialFrame(b) ==
    /\ Len(b) >= 2
    /\ b[1] = 170 /\ b[2] = 85
    /\ \/ Len(b) < 8
       \/ Len(b) < 8 + b[5] + 256 * b[6]

\* C21: receive buffer invariant. After every drain the buffer is empty, or
\* a single trailing byte, or a partial frame prefix that starts with
\* 0xAA 0x55 and is shorter than the frame its header declares.
C21_BufferInvariant ==
    Drained => \/ buffer = <<>>
               \/ Len(buffer) = 1
               \/ PartialFrame(buffer)

\* garbage was truncated to its last byte, which is not a magic byte
C21_Witness ==
    /\ Drained
    /\ scenario.kind = "garbage" /\ scenario.noise = <<255, 2>> /\ scenario.k = 2
    /\ step = "feed"
    /\ buffer = <<2>>

\* C22: embedded magic is skipped. When the buffer starts at the magic of a
\* complete valid frame whose payload holds 0xAA 0x55 (anywhere, any number
\* of times), _read_one_frame returns that frame with its full payload and
\* leaves exactly the bytes after the frame; no frame that starts inside the
\* payload is ever reported.
C22_EmbeddedMagic ==
    (scenario.kind = "embedded" /\ outcomes # <<>>) =>
        /\ outcomes[1] = TheFrame
        /\ Len(outcomes) = 1 => buffer = EncodeAll(scenario.tail)
        /\ step = "done" =>
              /\ outcomes = <<TheFrame>> \o scenario.tail \o <<None>>
              /\ buffer = <<>>

\* the payload is itself a whole well-formed frame, between two other bytes
C22_Witness ==
    /\ scenario.kind = "embedded" /\ step = "done"
    /\ scenario.payload = <<7>> \o AckOk \o <<7>>
    /\ Len(scenario.tail) = 2
    /\ Len(outcomes) = 4
    /\ outcomes[1].payload = scenario.payload
(***************************************************************************)
(* Properties of the reconnect policy (checked under Spec)                 *)
(***************************************************************************)
\* the step in which the Receive Loop's read raises: run leaves its read with
\* the link no longer open
ReadErrorStep ==
    pc["bg"] = "r_read" /\ pc'["bg"] # "r_read" /\ serial_port' # "open"

\* C25: Reconnecting is entered only with auto-reconnect enabled. A read
\* error in the Receive Loop while auto_reconnect is false closes the link
\* and emits disconnected, and from then on the background task makes no
\* connect attempt.
C25_NoReconnectWhenDisabled ==
    [][/\ (ReadErrorStep /\ ~auto_reconnect) =>
              /\ serial_port' = "closed"
              /\ emitted' = emitted \o <<ErrorOccurred, Disconnected>>
              /\ pc'["bg"] \notin Reconnecting
       /\ (~auto_reconnect /\ pc["bg"] \notin Reconnecting) =>
              pc'["bg"] \notin Reconnecting]_vars

\* a link re-established by the user after a Disconnect has failed, and the
\* background task is back at the top of its loop with the link closed
C25_Witness ==
    /\ ~auto_reconnect /\ is_running
    /\ Count(emitted, "connected") = 2
    /\ serial_port = "closed"
    /\ pc["bg"] = "r_top"
    /\ budget.faults = 0
    /\ Since(emitted, Len(emitted) - 2) = <<ErrorOccurred, Disconnected>>
\* the user's last Connect failed its handshake (no verifying ACK in time)
VerificationFailed ==
    pc["fg"] = "idle" /\ call["fg"].res = "false" /\ call["fg"].cause = "timeout"

ConnectedCount == Count(emitted, "connected")

\* C26: a verification failure does not start auto-reconnect. The step in
\* which a user-initiated Connect fails its handshake closes the link and
\* leaves the background task where it was; and from then on, with no
\* reconnect loop already under way, nothing opens the link, makes a connect
\* attempt or emits connected until the user calls Connect again.
C26_FailureStartsNoReconnect ==
    [][/\ (pc["fg"] = "c_wait" /\ VerificationFailed') =>
              /\ serial_port' = "closed"
              /\ pc'["bg"] = pc["bg"]
              /\ ConnectedCount' = ConnectedCount
       /\ (VerificationFailed /\ serial_port # "open"
              /\ pc["bg"] \notin Reconnecting) =>
              /\ pc'["bg"] \notin Reconnecting
              /\ serial_port' # "open"
              /\ ConnectedCount' = ConnectedCount]_vars

(***************************************************************************)
(* Properties of send_frame (checked under SpecSend)                       *)
(***************************************************************************)
\* the step in which send_frame is called and returns (or raises)
SendStep == step = "feed" /\ step' = "done"

ManagerUnchanged == UNCHANGED <<serial_port, is_running, auto_reconnect, read_buffer>>

\* C23: caller misuse is rejected without effect. send_frame called while no
\* link is open, or with a payload longer than 65535 bytes, ends at once in
\* an error (the error event, or the exception of struct.pack), writes no
\* byte to the link and leaves serial_port, is_running, auto_reconnect and
\* read_buffer unchanged.
C23_MisuseRejected ==
    [][(SendStep /\ (serial_port # "open" \/ scenario.k > 65535)) =>
          /\ outcomes' \in {<<"not_connected">>, <<"struct.error">>}
          /\ serial_port # "open" =>
                /\ outcomes' = <<"not_connected">>
                /\ emitted' = Append(emitted, ErrorOccurred)
          /\ tx' = tx
          /\ ManagerUnchanged]_vars

\* an oversized payload handed to an open, verified link
C23_Witness ==
    /\ step = "done"
    /\ outcomes = <<"struct.error">>
    /\ scenario.k = 65536
    /\ serial_port = "open" /\ is_running
    /\ emitted = <<Connected>>
    /\ tx = <<>>

\* C24: a write failure does not change the connection. When the write in
\* send_frame times out or raises a transport error, an error event is
\* emitted, the link handle, is_running, auto_reconnect and read_buffer are
\* unchanged, and the send path starts no reconnect.
C24_WriteFailureKeepsLink ==
    [][(SendStep /\ outcomes' \in {<<"timeout">>, <<"error">>}) =>
          /\ emitted' = Append(emitted, ErrorOccurred)
          /\ tx' = tx
          /\ ManagerUnchanged
          /\ serial_port' = "open"
          /\ pc' = pc]_vars

\* a write that timed out on a verified link whose Receive Loop is running
C24_Witness ==
    /\ step = "done"
    /\ outcomes = <<"timeout">>
    /\ serial_port = "open" /\ is_running /\ auto_reconnect
    /\ pc["bg"] = "r_read"
    /\ emitted = <<Connected, ErrorOccurred>>
(***************************************************************************)
(* Properties of the payload consumers (checked under SpecPayload)         *)
(***************************************************************************)
\* the little-endian uint32 at bytes 4k+1..4k+4 of p, bit by bit
FieldAt(p, k) ==
    {j \in 0..31 : (p[4 * k + (j \div 8) + 1] \div 2^(j % 8)) % 2 = 1}

MouseDone == scenario.kind = "mouse" /\ step = "done"
MouseAccepted(v) == buffer = <<v>> /\ outcomes = <<Did("mouse", v, FALSE)>>
MouseRejected == buffer = <<>> /\ outcomes = <<Did("mouse_error", <<>>, FALSE)>>

HealthDone == scenario.kind = "health" /\ step = "done"

\* C28: health payload. Every payload of at least 16 bytes is decoded into
\* 13 unsigned 8-bit fields followed by a 4-byte little-endian unsigned
\* timestamp, shown and handed to the persistence sink; a shorter payload
\* is logged and not persisted.
C28_HealthPayload ==
    HealthDone =>
        LET p == scenario.payload
        IN  IF Len(p) >= 16
            THEN /\ Len(buffer) = 1
                 /\ outcomes = <<Did("health", buffer[1], TRUE)>>
                 /\ Len(p) >= 17 =>
                       /\ \A i \in 1..13 : ToInt(buffer[1][i]) = p[i]
                       /\ buffer[1][14] =
                             {j \in 0..31 : (p[14 + (j \div 8)] \div 2^(j % 8)) % 2 = 1}
            ELSE /\ buffer = <<>>
                 /\ outcomes = <<Did("health_length", <<>>, FALSE)>>
(***************************************************************************)
(* Further properties of the frame codec (checked under SpecCodec)         *)
(***************************************************************************)
\* the first of the two reads of a "garbage" scenario
FirstRead ==
    Slice(scenario.noise \o BuildFrame(scenario.cmd, scenario.payload), 0, scenario.k)

\* C29: a magic split across reads is not lost. Garbage without a 0xAA 0x55
\* pair followed by one valid frame, delivered in two reads split at any
\* position (also between the frame's 0xAA and its 0x55): the drain after
\* the first read returns None, keeping at most the last byte when no magic
\* is present; the drain after the second read yields the frame exactly
\* once and leaves an empty buffer.
C29_SplitMagic ==
    scenario.kind = "garbage" =>
        /\ (step = "feed" /\ Len(feeds) = 1) =>
              /\ outcomes = <<None>>
              /\ ~HasMagic(FirstRead) =>
                    buffer = <<FirstRead[Len(FirstRead)]>>
        /\ step = "done" =>
              /\ outcomes = <<None, TheFrame, None>>
              /\ buffer = <<>>

\* the reads were cut between the frame's 0xAA and its 0x55, after garbage
\* that itself ends in 0xAA
C29_Witness ==
    /\ scenario.kind = "garbage" /\ step = "done"
    /\ scenario.noise = <<MAGIC1, MAGIC0>>
    /\ scenario.k = 3
    /\ scenario.payload = <<MAGIC0, MAGIC1>>
    /\ outcomes[2] = TheFrame
\* the candidate of a "swallow" scenario: its declared payload length, its
\* bytes, and whether its CRC field differs from the CRC of its contents
DeclaredLen == Len(scenario.payload) + scenario.k - 2
Candidate == SubSeq(SwallowStream(scenario), 1, 8 + DeclaredLen)
CandidateCrcFails ==
    Candidate[7 + DeclaredLen] + 256 * Candidate[8 + DeclaredLen]
        # RefCrc(0, SubSeq(Candidate, 3, 6 + DeclaredLen), 1)

\* C30: the frame boundary is trusted on CRC failure. For a magic-aligned
\* candidate of 8 + L bytes whose CRC does not match, _read_one_frame removes
\* exactly those 8 + L bytes and returns Invalid; decoding resumes after
\* them, so a frame that begins inside them, even a well-formed one, is
\* not decoded.
C30_BoundaryTrusted ==
    (scenario.kind = "swallow" /\ CandidateCrcFails /\ outcomes # <<>>) =>
        /\ outcomes[1] = Invalid
        /\ Len(outcomes) = 1 =>
              buffer = SubSeq(SwallowStream(scenario), 9 + DeclaredLen,
                              Len(SwallowStream(scenario)))
        /\ step = "done" => outcomes = <<Invalid>> \o scenario.tail \o <<None>>

\* the candidate covered a whole well-formed frame, and two frames followed
C30_Witness ==
    /\ scenario.kind = "swallow" /\ step = "done"
    /\ CandidateCrcFails
    /\ scenario.k = Len(InnerFrame) /\ scenario.payload = <<0>>
    /\ Len(scenario.tail) = 2
    /\ outcomes[1] = Invalid /\ Len(outcomes) = 4
\* every byte read so far, in order
RECURSIVE Concat(_)
Concat(chunks) == IF chunks = <<>> THEN <<>> ELSE Head(chunks) \o Concat(Tail(chunks))
Received ==
    LET all == Concat(ChunksOf(scenario))
    IN  SubSeq(all, 1, Len(all) - Len(Concat(feeds)))

\* C31: an unsatisfied length stalls decoding. While the buffer begins with
\* a magic-aligned header declaring L payload bytes and fewer than 8 + L
\* bytes have arrived, every drain returns None, discards no byte and
\* reports no frame, whatever the later reads hold (complete valid frames
\* included): the buffer is everything read so far and grows with each read.
C31_LengthStalls ==
    (scenario.kind = "stall" /\ Len(Received) < 8 + scenario.k) =>
        /\ \A i \in 1..Len(outcomes) : outcomes[i] = None
        /\ buffer = Received

\* two whole valid frames have arrived behind a header that declares 65535
\* bytes, and the second drain has returned
C31_Witness ==
    /\ scenario.kind = "stall" /\ step = "done"
    /\ scenario.k = 65535 /\ scenario.payload = <<1, 0>>
    /\ Len(scenario.tail) = 2
    /\ outcomes = <<None, None, None>>
    /\ Len(buffer) = 8 + 8 + 10
\* the whole stream delivered in a single read and drained: the results
\* other than None, in order, and the buffer left
RECURSIVE WholeDrain(_, _)
WholeDrain(buf, outs) ==
    LET r == _read_one_frame(buf)
    IN  IF r.result = None THEN [buf |-> r.buf, outs |-> outs]
        ELSE WholeDrain(r.buf, Append(outs, r.result))

Reported == SelectSeq(outcomes, LAMBDA o : o # None)

\* C32: chunking independence. A byte stream cut into successive reads,
\* each appended to the buffer and drained, gives the same valid frames and
\* Invalid results, in the same order, and leaves the same pending bytes as
\* the whole stream delivered in one read.
C32_ChunkingIndependence ==
    (scenario.kind = "chunks" /\ step = "done") =>
        LET whole == WholeDrain(scenario.noise, <<>>)
        IN  /\ Reported = whole.outs
            /\ buffer = whole.buf

\* three reads, the middle one a single byte, of a stream whose noise is a
\* false header: one frame was reported and the rest is pending
C32_Witness ==
    /\ scenario.kind = "chunks" /\ step = "done"
    /\ scenario.bit = scenario.k + 1
    /\ SubSeq(scenario.noise, 10, 12) = <<MAGIC1, MAGIC0, MAGIC1>>
    /\ scenario.k = 10
    /\ Len(Reported) = 1 /\ Len(outcomes) = 4
    /\ buffer # <<>>
(***************************************************************************)
(* Termination of the drain loop (checked under SpecCodec)                 *)
(***************************************************************************)
IsSuffix(a, b) ==
    Len(a) <= Len(b) /\ a = SubSeq(b, Len(b) - Len(a) + 1, Len(b))

\* one call of _read_one_frame by the drain loop
DrainCall == step = "drain" /\ Len(outcomes') = Len(outcomes) + 1

\* C33: the drain loop terminates. Every call returns a suffix of the buffer
\* it was given, and a call whose outcome is a frame or Invalid returns a
\* buffer at least 8 bytes shorter; so the calls that report an outcome are
\* at most one per 8 bytes received, and the call after the last of them
\* returns None and ends the drain.
C33_DrainTerminates ==
    /\ [][DrainCall =>
            /\ IsSuffix(buffer', buffer)
            /\ outcomes'[Len(outcomes')] # None => Len(buffer') <= Len(buffer) - 8
            /\ outcomes'[Len(outcomes')] = None => step' # "drain"]_vars
    /\ [](8 * Len(Reported) + Len(buffer) <= Len(Received))

\* a drain of four calls has returned: Invalid, two frames, None
C33_Witness ==
    /\ step = "done"
    /\ scenario.kind = "corrupt"
    /\ Len(scenario.tail) = 2 /\ scenario.payload = <<>>
    /\ Len(outcomes) = 4
    /\ outcomes[1] = Invalid /\ outcomes[4] = None
    /\ buffer = <<>>
(***************************************************************************)
(* The handshake consumes what it decodes (checked under Spec)             *)
(***************************************************************************)
\* a step of connect_serial on thread t while it waits for the ACK
HandshakeStep(t) == pc[t] = "c_wait" /\ call'[t] # call[t]

\* C34: frames decoded during the handshake are not dispatched. No step of
\* connect_serial's wait emits an Acknowledgement, HealthDataReady or
\* MouseData event, whatever valid frames it decodes before or as the
\* verifying ACK; when the call returns True read_buffer holds exactly the
\* bytes read after the verifying ACK, and otherwise the step leaves
\* read_buffer as it was.
C34_HandshakeConsumes ==
    [][\A t \in Threads : HandshakeStep(t) =>
          /\ Business(emitted') = Business(emitted)
          /\ IF call'[t].res = "true"
             THEN read_buffer' = AfterFirst(call'[t].seen, VerifyingFrames)
             ELSE read_buffer' = read_buffer]_vars

\* a notification arrived ahead of the ACK and half a frame after it: the
\* call returned True, nothing was dispatched, the half frame is buffered
C34_Witness ==
    /\ call["fg"].res = "true"
    /\ call["fg"].seen = Chunk.notify \o AckOk \o Chunk.head
    /\ call["fg"].post.read_buffer = Chunk.head
    /\ Business(emitted) = <<>>
(***************************************************************************)
(* auto_reconnect (checked under Spec)                                     *)
(***************************************************************************)
\* whether disconnect_serial has been called
DisconnectCalled ==
    budget.discs < (IF dev.menu = {} THEN MaxDisconnects + 1 ELSE MaxDisconnects)

\* C35: auto_reconnect is one-way. It is true from construction until
\* disconnect_serial is called, false after every disconnect_serial, and no
\* step sets it from false to true; so once
\* Disconnect has been called, a read error of the Receive Loop (the link
\* having been connected again) closes the link and starts no reconnect
\* attempt.
C35_AutoReconnectOneWay ==
    [][/\ ~DisconnectCalled => auto_reconnect
       /\ auto_reconnect' => auto_reconnect
       /\ DisconnectStep => ~auto_reconnect'
       /\ (DisconnectCalled /\ ReadErrorStep) =>
             /\ serial_port' = "closed"
             /\ pc'["bg"] \notin Reconnecting
             /\ call' = call]_vars

\* Disconnect, then a Connect that succeeded and dispatched a frame, then a
\* read error: the link is closed and the background task is not reconnecting
C35_Witness ==
    /\ DisconnectCalled /\ ~auto_reconnect
    /\ call["fg"].res = "true" /\ call["bg"] = NoCall
    /\ Count(emitted, "connected") = 1
    /\ Business(emitted) # <<>>
    /\ emitted[Len(emitted)] = Disconnected
    /\ emitted[Len(emitted) - 1] = ErrorOccurred
    /\ serial_port = "closed" /\ pc["bg"] = "r_top"
(***************************************************************************)
(* connected and disconnected events (checked under Spec)                  *)
(***************************************************************************)
ConnectionEvents == SelectSeq(emitted, LAMBDA e : e \in {Connected, Disconnected})

\* C36: connection events alternate. As long as Connect has been called only
\* with the link not open and Disconnect only with the link open, the
\* connected and disconnected events emitted so far alternate strictly,
\* starting with connected.
C36_EventsAlternate ==
    ~hist.idle =>
        \A i \in 1..Len(ConnectionEvents) :
            ConnectionEvents[i] = (IF i % 2 = 1 THEN Connected ELSE Disconnected)
(***************************************************************************)
(* read_buffer across a reconnect (checked under Spec)                     *)
(***************************************************************************)
\* the step in which a reconnect attempt succeeds, and the states in which
\* the link in use is the one it established
ReconnectSucceeds == pc["bg"] = "c_wait" /\ call'["bg"].res = "true"
Reconnected ==
    /\ call["bg"].res = "true"
    /\ call["bg"].post.nconn = Count(emitted, "connected")
    /\ pc["bg"] \in {"r_top", "r_read"}

\* the bytes the reconnect attempt read after its verifying ACK
NewLinkLeftovers == AfterFirst(call["bg"].seen, VerifyingFrames)

\* C37: no stale bytes cross a reconnect. The step in which a reconnect
\* succeeds leaves in read_buffer exactly the bytes the attempt read after its
\* verifying ACK, whatever was buffered when the link failed; and on the
\* re-established link the business events are those of the leftovers
\* followed by the bytes read on that link, so a partial frame buffered
\* before the failure is never completed.
C37_NoStaleBytes ==
    /\ [][ReconnectSucceeds => read_buffer' = NewLinkLeftovers']_vars
    /\ [](Reconnected =>
            LET reads == SubSeq(hist.fed, Len(NewLinkLeftovers) + 1, Len(hist.fed))
                ref == _process_read_data(NewLinkLeftovers \o reads, <<>>)
            IN  /\ SubSeq(hist.fed, 1, Len(NewLinkLeftovers)) = NewLinkLeftovers
                /\ Business(Since(emitted, hist.base)) =
                       (IF hist.iterated THEN ref.evs ELSE <<>>)
                /\ hist.iterated => read_buffer = ref.buf)

\* the first half of a frame was buffered when the link failed; the
\* reconnect succeeded, the second half arrived on the new link and was
\* read: no frame was dispatched, and of the two halves only the last byte
\* received is still buffered
C37_Witness ==
    /\ Reconnected /\ hist.iterated
    /\ hist.stale = Chunk.head
    /\ call["bg"].seen = AckOk
    /\ hist.fed = Chunk.tail
    /\ Business(emitted) = <<>>
    /\ read_buffer = <<Chunk.tail[Len(Chunk.tail)]>>
(***************************************************************************)
(* The health check ends (checked under SpecUi)                            *)
(***************************************************************************)
\* C38: a started health check always ends. The start button is never
\* disabled without the detection timeout timer being active, the timer
\* whose expiry calls _reset_detection_state and enables the button again.
C38_HealthCheckEnds == ~start_button => detection_timeout_timer
=============================================================================
